---- MODULE Spec2Model ----
(***************************************************************************)
(* Authentication and token-lifecycle core of the time-tracking backend:   *)
(* password hashing (auth_service.py), access / refresh token minting and  *)
(* verification, the refresh_tokens table and the /auth handlers.          *)
(*                                                                         *)
(* Time is counted in ticks since the epoch, TicksPerSec ticks to the      *)
(* second, so that the sub-second part of datetime.now() that jwt.encode   *)
(* drops from "exp" is visible.                                            *)
(***************************************************************************)
EXTENDS Integers, Sequences, FiniteSets, TLC

(* ------------------------------------------------------------------ *)
(* Bounds of the model                                                 *)
(* ------------------------------------------------------------------ *)
TicksPerSec == 2
MaxAdvances == 2
MaxTokenRows == 3
MaxUsers == 2
MaxCalls == 3
MaxSessions == 2
MaxLaps == 2
MaxImages == 1

(* ------------------------------------------------------------------ *)
(* Configuration (auth_service.py:16-23)                               *)
(* ------------------------------------------------------------------ *)
SECRET_KEY == "your-super-secret-key-change-in-production"
ALGORITHM == "HS256"
ACCESS_TOKEN_EXPIRE_MINUTES == 30
REFRESH_TOKEN_EXPIRE_DAYS == 30
SALT_LENGTH == 32
HASH_ITERATIONS == 100000

(* Optional[T]: None is the empty set, a value x is {x}. *)
None == {}
Some(x) == {x}

(* ------------------------------------------------------------------ *)
(* Python strings as sequences of one-character strings               *)
(* ------------------------------------------------------------------ *)
DigitChars == <<"0", "1", "2", "3", "4", "5", "6", "7", "8", "9">>
HexChars == DigitChars \o <<"a", "b", "c", "d", "e", "f">>

(* The value of a decimal or hexadecimal digit. *)
DigitValue == [c \in {DigitChars[i] : i \in 1..10} |->
                  (CHOOSE i \in 1..10 : DigitChars[i] = c) - 1]
HexValue == [c \in {HexChars[i] : i \in 1..16} |->
                (CHOOSE i \in 1..16 : HexChars[i] = c) - 1]

(* str(n) of a non-negative int: its decimal digits. *)
RECURSIVE str(_)
str(n) ==
    IF n < 10 THEN <<DigitChars[n + 1]>>
    ELSE Append(str(n \div 10), DigitChars[(n % 10) + 1])

(* int(s) raises ValueError unless s is a decimal numeral. *)
IsDecimal(s) ==
    /\ Len(s) > 0
    /\ \A i \in 1..Len(s) : s[i] \in DOMAIN DigitValue

RECURSIVE int(_)
int(s) ==
    IF Len(s) = 0 THEN 0
    ELSE 10 * int(SubSeq(s, 1, Len(s) - 1)) + DigitValue[s[Len(s)]]

(* bytes.hex(): two lower-case hex digits per byte. *)
hex(bytes) ==
    [i \in 1..(2 * Len(bytes)) |->
        IF i % 2 = 1 THEN HexChars[(bytes[(i + 1) \div 2] \div 16) + 1]
        ELSE HexChars[(bytes[i \div 2] % 16) + 1]]

(* bytes.fromhex(s) raises ValueError on an odd length or a non-hex digit. *)
IsHex(s) ==
    /\ Len(s) % 2 = 0
    /\ \A i \in 1..Len(s) : s[i] \in DOMAIN HexValue

fromhex(s) ==
    [i \in 1..(Len(s) \div 2) |-> 16 * HexValue[s[2 * i - 1]] + HexValue[s[2 * i]]]

(* s.split("$"): the fields between the delimiters. *)
RECURSIVE split(_, _)
split(s, sep) ==
    IF \A i \in 1..Len(s) : s[i] # sep THEN <<s>>
    ELSE LET k == CHOOSE i \in 1..Len(s) :
                      s[i] = sep /\ \A j \in 1..(i - 1) : s[j] # sep
         IN <<SubSeq(s, 1, k - 1)>> \o split(SubSeq(s, k + 1, Len(s)), sep)

(* ------------------------------------------------------------------ *)
(* Credential hasher (auth_service.py:26-60)                           *)
(* ------------------------------------------------------------------ *)

(* The block size of SHA-256 in bytes, and the largest iteration count
   hashlib.pbkdf2_hmac takes (a C int). *)
HMAC_BLOCK_SIZE == 64
INT_MAX == 2147483647

(* HMAC pads a key that is shorter than the block with zero bytes (a longer
   key is hashed first; the model's passwords are shorter than the block). *)
hmac_key(password) ==
    password \o [i \in 1..(HMAC_BLOCK_SIZE - Len(password)) |-> 0]

(* The key block written without its zero padding: the padded block and
   this form determine each other. *)
unpadded(block) ==
    LET ends == {n \in 0..Len(block) : \A i \in (n + 1)..Len(block) : block[i] = 0}
    IN SubSeq(block, 1, CHOOSE n \in ends : \A m \in ends : n <= m)

(* hashlib.pbkdf2_hmac("sha256", password, salt, iterations), for an
   iteration count in 1..INT_MAX: the derived key is modelled as a
   collision-free function of the HMAC key block, the count and the salt
   (the block is written without its padding, then a zero byte, the four
   bytes of the count and the salt). *)
pbkdf2_hmac(password, salt, iterations) ==
    unpadded(hmac_key(password)) \o <<0>>
    \o <<iterations % 256, (iterations \div 256) % 256,
         (iterations \div 65536) % 256, (iterations \div 16777216) % 256>>
    \o salt

(* Faulty variant: the record names one iteration count more than the
   derivation used. *)
get_password_hash_wrong_count(password, salt) ==
    LET password_hash == hex(pbkdf2_hmac(password, salt, HASH_ITERATIONS))
    IN str(HASH_ITERATIONS + 1) \o <<"$">> \o hex(salt) \o <<"$">> \o password_hash

get_password_hash(password, salt) ==
    LET password_hash == hex(pbkdf2_hmac(password, salt, HASH_ITERATIONS))
    IN str(HASH_ITERATIONS) \o <<"$">> \o hex(salt) \o <<"$">> \o password_hash

(* A decimal numeral whose value is above INT_MAX. *)
ExceedsIntMax(s) ==
    LET zeros == {i \in 0..Len(s) : \A j \in 1..i : s[j] = "0"}
        lead == CHOOSE i \in zeros : \A j \in zeros : j <= i
        d == SubSeq(s, lead + 1, Len(s))
        m == str(INT_MAX)
    IN \/ Len(d) > Len(m)
       \/ /\ Len(d) = Len(m)
          /\ \E i \in 1..Len(m) :
                /\ \A j \in 1..(i - 1) : d[j] = m[j]
                /\ DigitValue[d[i]] > DigitValue[m[i]]

(* The characters of the model's alphabet that are not ASCII;
   secrets.compare_digest raises TypeError on a str that holds one. *)
NonAsciiChars == {"U+00E9"}
IsAscii(s) == \A i \in 1..Len(s) : s[i] \notin NonAsciiChars

(* Faulty variant: without the try / except (ValueError, IndexError). *)
verify_password_uncaught(plain_password, hashed_password) ==
    LET parts == split(hashed_password, "$")
    IN IF Len(parts) # 3 THEN [raised |-> "none", ret |-> FALSE]
       ELSE IF ~IsDecimal(parts[1]) THEN [raised |-> "ValueError", ret |-> FALSE]
       ELSE IF ~IsHex(parts[2]) THEN [raised |-> "ValueError", ret |-> FALSE]
       ELSE IF ExceedsIntMax(parts[1]) THEN [raised |-> "OverflowError", ret |-> FALSE]
       ELSE IF int(parts[1]) < 1 THEN [raised |-> "ValueError", ret |-> FALSE]
       ELSE IF ~IsAscii(parts[3]) THEN [raised |-> "TypeError", ret |-> FALSE]
       ELSE [raised |-> "none",
             ret |-> hex(pbkdf2_hmac(plain_password, fromhex(parts[2]), int(parts[1])))
                        = parts[3]]

(* verify_password: returns [raised, ret]. ValueError is caught and turned
   into False; the OverflowError of pbkdf2_hmac and the TypeError of
   compare_digest are not caught. *)
verify_password(plain_password, hashed_password) ==
    LET parts == split(hashed_password, "$")
        False == [raised |-> "none", ret |-> FALSE]
    IN IF Len(parts) # 3 THEN False
       ELSE IF ~IsDecimal(parts[1]) THEN False      \* int() -> ValueError
       ELSE IF ~IsHex(parts[2]) THEN False          \* fromhex() -> ValueError
       ELSE IF ExceedsIntMax(parts[1])              \* pbkdf2_hmac -> OverflowError
       THEN [raised |-> "OverflowError", ret |-> FALSE]
       ELSE LET iterations == int(parts[1])
                salt == fromhex(parts[2])
                stored_hash == parts[3]
            IN IF iterations < 1 THEN False         \* pbkdf2_hmac -> ValueError
               ELSE IF ~IsAscii(stored_hash)        \* compare_digest -> TypeError
               THEN [raised |-> "TypeError", ret |-> FALSE]
               ELSE LET computed_hash ==
                            hex(pbkdf2_hmac(plain_password, salt, iterations))
                    IN [raised |-> "none", ret |-> computed_hash = stored_hash]

(* ------------------------------------------------------------------ *)
(* Inputs: names, passwords and salts                                *)
(* ------------------------------------------------------------------ *)
UsernamePool == <<"alice", "bob", "carol", "dave">>
Usernames == {UsernamePool[i] : i \in 1..MaxUsers}

(* utf-8 bytes of "pass11" and "pass22" (SignupRequest: min_length=6). *)
PasswordPool == <<(<<112, 97, 115, 115, 49, 49>>), (<<112, 97, 115, 115, 50, 50>>)>>
Passwords == {PasswordPool[i] : i \in 1..2}

(* The password each person signs up with; a login may send any password. *)
ChosenPassword(username) ==
    PasswordPool[((CHOOSE i \in 1..MaxUsers : UsernamePool[i] = username) % 2) + 1]

(* secrets.token_bytes(SALT_LENGTH): some salt of that length. *)
Salts == {[i \in 1..SALT_LENGTH |-> 171]}

(* The credential records a signup can store. *)
CredentialRecords == {get_password_hash(p, s) : p \in Passwords, s \in Salts}

(* "pass11" followed by a NUL character: a password a login can send. *)
PaddedPassword == PasswordPool[1] \o <<0>>
LoginPasswords == Passwords \cup {PaddedPassword}

(* A stored string of three fields. *)
Record(count, salt, hash) == count \o <<"$">> \o salt \o <<"$">> \o hash

(* Malformed stored records: a wrong field count, a non-numeric iteration
   count, a non-hex salt. *)
MalformedRecords ==
    {<<>>,
     str(HASH_ITERATIONS),
     str(HASH_ITERATIONS) \o <<"$">> \o <<"a", "b">>,
     Record(str(HASH_ITERATIONS), <<"a", "b">>, <<"c", "d">>) \o <<"$">> \o <<"e", "f">>,
     Record(<<>>, <<"a", "b">>, <<"c", "d">>),
     Record(<<"1", "z">>, <<"a", "b">>, <<"c", "d">>),
     Record(<<"z">>, <<"z", "z">>, <<"U+00E9">>),
     Record(str(HASH_ITERATIONS), <<"z", "z">>, <<"c", "d">>),
     Record(str(HASH_ITERATIONS), <<"a", "b", "c">>, <<"c", "d">>),
     Record(str(INT_MAX) \o <<"0">>, <<"z", "z">>, <<"c", "d">>)}

(* Other stored records no signup wrote: a count of zero, a count above
   INT_MAX, a hash field that is not ASCII, a hash field of another value. *)
CorruptRecords ==
    {Record(<<"0">>, <<"a", "b">>, <<"c", "d">>),
     Record(str(INT_MAX) \o <<"0">>, <<"a", "b">>, <<"c", "d">>),
     Record(<<"1">>, <<"a", "b">>, <<"U+00E9">>),
     Record(<<"1">>, <<"a", "b">>, <<"c", "d">>)}

(* The strings the password_hash column can hold. *)
StoredRecords ==
    {get_password_hash(p, s) : p \in LoginPasswords, s \in Salts}
        \cup MalformedRecords \cup CorruptRecords

(* verify_password, tabulated (the table is evaluated once). *)
verify_password_table ==
    [p \in LoginPasswords, h \in StoredRecords |-> verify_password(p, h)]

(* ------------------------------------------------------------------ *)
(* Token codec: jwt.encode / jwt.decode with HS256                     *)
(* ------------------------------------------------------------------ *)

(* timedelta(minutes=m), timedelta(days=d) in ticks. *)
minutes(m) == m * 60 * TicksPerSec
days(d) == d * 86400 * TicksPerSec

(* jwt.encode writes a datetime "exp" as whole seconds since the epoch
   (timegm of its utctimetuple): the sub-second part is dropped. *)
timegm(t) == t \div TicksPerSec

(* The encoded token is determined by its payload and the signing key. *)
jwt_encode(to_encode, key) ==
    [sub |-> to_encode.sub, exp |-> timegm(to_encode.exp),
     type |-> to_encode.type, sig |-> key]

(* Faulty variant: "exp" is not verified (options verify_exp = False). *)
jwt_decode_no_exp(token, key, now_) ==
    IF token.sig # key
    THEN [raised |-> "InvalidTokenError", payload |-> None]
    ELSE [raised |-> "none",
          payload |-> Some([sub |-> token.sub, exp |-> token.exp, type |-> token.type])]

(* jwt.decode: the signature is checked first, then "exp" against the
   current time (expired when exp <= now). *)
jwt_decode(token, key, now_) ==
    IF token.sig # key
    THEN [raised |-> "InvalidTokenError", payload |-> None]
    ELSE IF token.exp * TicksPerSec <= now_
    THEN [raised |-> "ExpiredSignatureError", payload |-> None]
    ELSE [raised |-> "none",
          payload |-> Some([sub |-> token.sub, exp |-> token.exp, type |-> token.type])]

(* The payload of a successful decode. *)
Payload(decoded) == CHOOSE p \in decoded.payload : TRUE

(* ------------------------------------------------------------------ *)
(* Session issuance service (auth_service.py:63-157)                   *)
(* ------------------------------------------------------------------ *)

(* Faulty variant: the access token is given the refresh token's lifetime. *)
create_access_token_long_lived(user_id, now_) ==
    LET expire == now_ + days(REFRESH_TOKEN_EXPIRE_DAYS)
        to_encode == [sub |-> str(user_id), exp |-> expire, type |-> "access"]
    IN jwt_encode(to_encode, SECRET_KEY)

create_access_token(user_id, now_) ==
    LET expire == now_ + minutes(ACCESS_TOKEN_EXPIRE_MINUTES)
        to_encode == [sub |-> str(user_id), exp |-> expire, type |-> "access"]
    IN jwt_encode(to_encode, SECRET_KEY)

(* What the sweep's DELETE can do: run; fail before a connection and a
   transaction exist ("no_connection"); or fail as a statement inside the
   session's transaction ("statement_error"), which leaves that transaction
   aborted until a rollback (sessionmaker(autocommit=False), database.py:21). *)
SweepFaults == {"none", "no_connection", "statement_error"}

(* Faulty variant: the sweep compares with < and leaves the row that expires now. *)
ExpiredRowsOf_strict(rows, user_id, now_) ==
    {r \in rows : r.user_id = user_id /\ r.expires_at < now_}

(* Faulty variant: the sweep's DELETE has no filter on user_id. *)
ExpiredRowsOf_any_user(rows, user_id, now_) ==
    {r \in rows : r.expires_at <= now_}

(* The rows the sweep's DELETE removes. *)
ExpiredRowsOf(rows, user_id, now_) ==
    {r \in rows : r.user_id = user_id /\ r.expires_at <= now_}

(* Faulty variant: the token is returned without db.add, so no record is stored. *)
create_refresh_token_unsaved(rows, next_id, user_id, now_, sweep_fault, commit_fault) ==
    LET expires_at == now_ + days(REFRESH_TOKEN_EXPIRE_DAYS)
        to_encode == [sub |-> str(user_id), exp |-> expires_at, type |-> "refresh"]
    IN [raised |-> "none", ret |-> Some(jwt_encode(to_encode, SECRET_KEY)),
        rows |-> rows, next_id |-> next_id + 1, logged |-> FALSE]

(* Faulty variant: the token column has no unique index, a second record
   with a stored token value is inserted. *)
create_refresh_token_no_unique(rows, next_id, user_id, now_, sweep_fault, commit_fault) ==
    LET expires_at == now_ + days(REFRESH_TOKEN_EXPIRE_DAYS)
        to_encode == [sub |-> str(user_id), exp |-> expires_at, type |-> "refresh"]
        token == jwt_encode(to_encode, SECRET_KEY)
        swept == IF sweep_fault = "none"
                 THEN rows \ ExpiredRowsOf(rows, user_id, now_)
                 ELSE rows
        logged == sweep_fault # "none"
        db_token == [id |-> next_id, user_id |-> user_id, token |-> token,
                     expires_at |-> expires_at]
    IN  IF sweep_fault = "statement_error"
        THEN [raised |-> "InternalError", ret |-> None, rows |-> rows,
              next_id |-> next_id, logged |-> logged]
        ELSE IF commit_fault
        THEN [raised |-> "OperationalError", ret |-> None, rows |-> rows,
              next_id |-> next_id, logged |-> logged]
        ELSE [raised |-> "none", ret |-> Some(token), rows |-> swept \cup {db_token},
              next_id |-> next_id + 1, logged |-> logged]

(* Faulty variant: a stored token value is not inserted again, its record
   is given the new expiry instead. *)
create_refresh_token_upsert(rows, next_id, user_id, now_, sweep_fault, commit_fault) ==
    LET expires_at == now_ + days(REFRESH_TOKEN_EXPIRE_DAYS)
        to_encode == [sub |-> str(user_id), exp |-> expires_at, type |-> "refresh"]
        token == jwt_encode(to_encode, SECRET_KEY)
        swept == IF sweep_fault = "none"
                 THEN rows \ ExpiredRowsOf(rows, user_id, now_)
                 ELSE rows
        logged == sweep_fault # "none"
        db_token == [id |-> next_id, user_id |-> user_id, token |-> token,
                     expires_at |-> expires_at]
    IN  IF sweep_fault = "statement_error"
        THEN [raised |-> "InternalError", ret |-> None, rows |-> rows,
              next_id |-> next_id, logged |-> logged]
        ELSE IF commit_fault
        THEN [raised |-> "OperationalError", ret |-> None, rows |-> rows,
              next_id |-> next_id, logged |-> logged]
        ELSE IF \E r \in swept : r.token = token
        THEN [raised |-> "none", ret |-> Some(token),
              rows |-> {IF r.token = token THEN [r EXCEPT !.expires_at = expires_at]
                        ELSE r : r \in swept},
              next_id |-> next_id, logged |-> logged]
        ELSE [raised |-> "none", ret |-> Some(token), rows |-> swept \cup {db_token},
              next_id |-> next_id + 1, logged |-> logged]

(* create_refresh_token: returns [raised, ret, rows, next_id]; rows is the
   committed table afterwards (unchanged when the commit raised, since the
   session is closed without a commit). *)
create_refresh_token(rows, next_id, user_id, now_, sweep_fault, commit_fault) ==
    LET expires_at == now_ + days(REFRESH_TOKEN_EXPIRE_DAYS)
        to_encode == [sub |-> str(user_id), exp |-> expires_at, type |-> "refresh"]
        token == jwt_encode(to_encode, SECRET_KEY)
        \* try: DELETE ... except Exception: logger.warning(...)
        swept == IF sweep_fault = "none"
                 THEN rows \ ExpiredRowsOf(rows, user_id, now_)
                 ELSE rows
        logged == sweep_fault # "none"
        db_token == [id |-> next_id, user_id |-> user_id, token |-> token,
                     expires_at |-> expires_at]
    IN  IF sweep_fault = "statement_error"
        THEN \* no rollback after the except: the INSERT runs in the aborted transaction
             [raised |-> "InternalError", ret |-> None, rows |-> rows,
              next_id |-> next_id, logged |-> logged]
        ELSE IF commit_fault
        THEN [raised |-> "OperationalError", ret |-> None, rows |-> rows,
              next_id |-> next_id, logged |-> logged]
        ELSE IF \E r \in swept : r.token = token
        THEN \* unique index on refresh_tokens.token (models.py:40)
             [raised |-> "IntegrityError", ret |-> None, rows |-> rows,
              next_id |-> next_id + 1, logged |-> logged]
        ELSE [raised |-> "none", ret |-> Some(token), rows |-> swept \cup {db_token},
              next_id |-> next_id + 1, logged |-> logged]

(* Faulty variant: the "type" claim is not compared. *)
verify_access_token_untyped(token, now_) ==
    LET decoded == jwt_decode(token, SECRET_KEY, now_)
    IN IF decoded.raised # "none" THEN None
       ELSE Some(int(Payload(decoded).sub))

verify_access_token(token, now_) ==
    LET decoded == jwt_decode(token, SECRET_KEY, now_)
    IN IF decoded.raised # "none" THEN None
       ELSE IF Payload(decoded).type # "access" THEN None
       ELSE Some(int(Payload(decoded).sub))

(* Faulty variant: the lookup does not filter on the token value. *)
find_valid_any_token(rows, token, user_id, now_) ==
    {r \in rows : r.user_id = user_id /\ r.expires_at > now_}

(* The row the refresh-token lookup finds (.first()), if any. *)
find_valid(rows, token, user_id, now_) ==
    {r \in rows : r.token = token /\ r.user_id = user_id /\ r.expires_at > now_}

(* Faulty variant: a bare except turns an error of the query into None. *)
verify_refresh_token_swallowing(rows, token, now_, query_fault) ==
    LET decoded == jwt_decode(token, SECRET_KEY, now_)
    IN IF decoded.raised # "none" THEN [raised |-> "none", ret |-> None]
       ELSE IF Payload(decoded).type # "refresh" THEN [raised |-> "none", ret |-> None]
       ELSE LET user_id == int(Payload(decoded).sub)
            IN IF query_fault THEN [raised |-> "none", ret |-> None]
               ELSE IF find_valid(rows, token, user_id, now_) = {}
               THEN [raised |-> "none", ret |-> None]
               ELSE [raised |-> "none", ret |-> Some(user_id)]

(* verify_refresh_token: returns [raised, ret]. The jwt errors are caught;
   an error of the query is not. *)
verify_refresh_token(rows, token, now_, query_fault) ==
    LET decoded == jwt_decode(token, SECRET_KEY, now_)
    IN IF decoded.raised # "none" THEN [raised |-> "none", ret |-> None]
       ELSE IF Payload(decoded).type # "refresh" THEN [raised |-> "none", ret |-> None]
       ELSE LET user_id == int(Payload(decoded).sub)
            IN IF query_fault THEN [raised |-> "OperationalError", ret |-> None]
               ELSE IF find_valid(rows, token, user_id, now_) = {}
               THEN [raised |-> "none", ret |-> None]
               ELSE [raised |-> "none", ret |-> Some(user_id)]

(* Faulty variant: the row is found but not deleted. *)
revoke_refresh_token_keeping(rows, token) ==
    LET db_token == {r \in rows : r.token = token}
    IN [ret |-> db_token # {}, rows |-> rows]

(* Faulty variant: True is returned also when no record was found. *)
revoke_refresh_token_always_true(rows, token) ==
    LET db_token == {r \in rows : r.token = token}
    IN [ret |-> TRUE, rows |-> rows \ db_token]

(* Faulty variant: the DELETE filters on the owner of the record found. *)
revoke_refresh_token_whole_user(rows, token) ==
    LET db_token == {r \in rows : r.token = token}
    IN IF db_token # {}
       THEN [ret |-> TRUE,
             rows |-> {r \in rows : \A d \in db_token : r.user_id # d.user_id}]
       ELSE [ret |-> FALSE, rows |-> rows]

revoke_refresh_token(rows, token) ==
    LET db_token == {r \in rows : r.token = token}
    IN IF db_token # {}
       THEN [ret |-> TRUE, rows |-> rows \ db_token]
       ELSE [ret |-> FALSE, rows |-> rows]

(* Faulty variant: the DELETE has no filter on user_id. *)
revoke_all_user_tokens_unfiltered(rows, user_id) == {}

(* Faulty variant: only the first record of the user is deleted. *)
revoke_all_user_tokens_first_only(rows, user_id) ==
    LET mine == {r \in rows : r.user_id = user_id}
    IN IF mine = {} THEN rows
       ELSE rows \ {CHOOSE r \in mine : \A q \in mine : r.id <= q.id}

(* revoke_all_user_tokens returns nothing. *)
revoke_all_user_tokens(rows, user_id) ==
    {r \in rows : r.user_id # user_id}

(* Faulty variant: the password is not verified. *)
authenticate_user_any_password(user_rows, username, password) ==
    [raised |-> "none", ret |-> {u \in user_rows : u.username = username}]

(* authenticate_user: returns [raised, ret]; what verify_password raises
   is not caught. *)
authenticate_user(user_rows, username, password) ==
    LET user == {u \in user_rows : u.username = username}
    IN IF user = {} THEN [raised |-> "none", ret |-> None]
       ELSE LET verified ==
                    verify_password_table[password, (CHOOSE u \in user : TRUE).password_hash]
            IN IF verified.raised # "none" THEN [raised |-> verified.raised, ret |-> None]
               ELSE IF ~verified.ret THEN [raised |-> "none", ret |-> None]
               ELSE [raised |-> "none", ret |-> user]

(* ------------------------------------------------------------------ *)
(* State                                                               *)
(* ------------------------------------------------------------------ *)
VARIABLES
    users,            \* table users: rows [id, username, password_hash]
    user_settings,    \* table user_settings: rows [user_id]
    refresh_tokens,   \* table refresh_tokens: rows [id, user_id, token, expires_at]
    next_user_id,     \* sequence behind users.id
    next_token_id,    \* sequence behind refresh_tokens.id
    now,              \* datetime.now(timezone.utc), in ticks
    advances,         \* how often the clock has been advanced
    held,             \* the tokens that login / signup responses handed to clients
    last,             \* the last call and what it answered
    calls,            \* requests served concurrently: where each one stands
    sessions,         \* table sessions: rows [id, user_id, session_name]
    laps,             \* table laps: rows [id, session_id, user_id, lap_number, lap_name]
    images,           \* table images: rows [image_uuid, user_id, session_id, lap_id,
                      \*                     minio_object_key]
    objects,          \* the object keys in the MinIO bucket
    next_session_id,  \* sequence behind sessions.id
    next_lap_id,      \* sequence behind laps.id
    next_image_id     \* how many image uuids have been drawn

auth_vars == <<users, user_settings, refresh_tokens, next_user_id, next_token_id,
               now, advances, held, last>>
tracker_vars == <<sessions, laps, images, objects, next_session_id, next_lap_id,
                  next_image_id>>
vars == <<auth_vars, calls, tracker_vars>>

(* ------------------------------------------------------------------ *)
(* Inputs, continued                                                   *)
(* ------------------------------------------------------------------ *)
UserIds == 1..MaxUsers

(* The same payload signed with a key that is not SECRET_KEY. *)
Forged(token) == [token EXCEPT !.sig = "not-the-secret-key"]

(* What a client can send as a bearer value. *)
Presentable ==
    held \cup last.accessToken
         \cup {Forged(t) : t \in last.accessToken \cup last.refreshToken}

(* A tick, or one of the two token lifetimes. *)
ClockSteps ==
    {1, minutes(ACCESS_TOKEN_EXPIRE_MINUTES), days(REFRESH_TOKEN_EXPIRE_DAYS)}

(* The HTTP response (or the service call's return value) of a call. *)
(* The rows a response is built from. *)
EmptyBody == [sessions |-> {}, laps |-> {}, images |-> {}]

Response(op, status, detail) ==
    [op |-> op, status |-> status, detail |-> detail,
     accessToken |-> None, refreshToken |-> None,
     user_id |-> None, deleted |-> None, raised |-> "none", logged |-> FALSE,
     body |-> EmptyBody]

(* A request slot of the concurrent server: the call it serves, the
   statement it has reached, its local variables and its outcome. *)
CallIds == 1..MaxCalls
IdleCall ==
    [op |-> "none", pc |-> "idle", user_id |-> 0, username |-> "", token |-> None,
     now_ |-> 0, found |-> {}, session_id |-> 0, lap_number |-> 0, ret |-> None,
     raised |-> "none", status |-> 0, detail |-> ""]

(* No request is being served concurrently, and the tracker tables are empty. *)
NoCalls == calls = [i \in CallIds |-> IdleCall]
NoTrackerRows ==
    /\ sessions = {}
    /\ laps = {}
    /\ images = {}
    /\ objects = {}
    /\ next_session_id = 1
    /\ next_lap_id = 1
    /\ next_image_id = 1

Init ==
    /\ users = {}
    /\ user_settings = {}
    /\ refresh_tokens = {}
    /\ next_user_id = 1
    /\ next_token_id = 1
    /\ now = 0
    /\ advances = 0
    /\ held = {}
    /\ last = Response("start", 0, "")
    /\ NoCalls
    /\ NoTrackerRows

(* ------------------------------------------------------------------ *)
(* Handlers (auth_routes.py) and service calls                         *)
(* ------------------------------------------------------------------ *)

(* Mint both tokens and answer: the tail shared by login and signup
   (auth_routes.py:30-37 and 68-75). A raise of create_refresh_token is the
   framework's 500. The faults of the storage are the environment's choice. *)
IssueTokens(op, user_id, message) ==
    \E sweep_fault \in SweepFaults, commit_fault \in BOOLEAN :
        LET access_token == create_access_token(user_id, now)
            out == create_refresh_token(refresh_tokens, next_token_id, user_id, now,
                                        sweep_fault, commit_fault)
        IN /\ refresh_tokens' = out.rows
           /\ next_token_id' = out.next_id
           /\ IF out.raised # "none"
              THEN /\ last' = [Response(op, 500, "Internal Server Error") EXCEPT
                                  !.raised = out.raised, !.logged = out.logged,
                                  !.user_id = Some(user_id)]
                   /\ held' = held
              ELSE /\ last' = [Response(op, 200, message) EXCEPT
                                  !.accessToken = Some(access_token),
                                  !.refreshToken = out.ret,
                                  !.logged = out.logged,
                                  !.user_id = Some(user_id)]
                   /\ held' = held \cup {access_token} \cup out.ret

login(username, password) ==
    LET auth == authenticate_user(users, username, password)
        user == auth.ret
    IN IF auth.raised # "none"
       THEN /\ last' = [Response("login", 500, "Internal Server Error") EXCEPT
                           !.raised = auth.raised]
            /\ UNCHANGED <<users, user_settings, refresh_tokens, next_user_id,
                           next_token_id, now, advances, held>>
       ELSE IF user = None
       THEN /\ last' = Response("login", 401, "Invalid username or password")
            /\ UNCHANGED <<users, user_settings, refresh_tokens, next_user_id,
                           next_token_id, now, advances, held>>
       ELSE /\ next_token_id <= MaxTokenRows
            /\ IssueTokens("login", (CHOOSE u \in user : TRUE).id, "Login successful")
            /\ UNCHANGED <<users, user_settings, next_user_id, now, advances>>

signup(username, password, salt) ==
    LET existing_user == {u \in users : u.username = username}
    IN IF existing_user # {}
       THEN /\ last' = Response("signup", 400, "Username already exists")
            /\ UNCHANGED <<users, user_settings, refresh_tokens, next_user_id,
                           next_token_id, now, advances, held>>
       ELSE /\ next_user_id <= MaxUsers
            /\ next_token_id <= MaxTokenRows
            /\ LET user == [id |-> next_user_id, username |-> username,
                            password_hash |-> get_password_hash(password, salt)]
               IN /\ users' = users \cup {user}
                  /\ user_settings' = user_settings \cup {[user_id |-> user.id]}
                  /\ next_user_id' = next_user_id + 1
                  /\ IssueTokens("signup", user.id, "Account created successfully")
            /\ UNCHANGED <<now, advances>>

(* Faulty variant: a successful refresh consumes the refresh token. *)
refresh_token_rotating(token) ==
    \E query_fault \in BOOLEAN :
        LET out == verify_refresh_token(refresh_tokens, token, now, query_fault)
        IN /\ last' =
                IF out.raised # "none"
                THEN [Response("refresh", 500, "Internal Server Error") EXCEPT
                         !.raised = out.raised]
                ELSE IF out.ret = None
                THEN Response("refresh", 401, "Invalid or expired refresh token")
                ELSE [Response("refresh", 200, "") EXCEPT
                         !.accessToken =
                             Some(create_access_token(CHOOSE u \in out.ret : TRUE, now)),
                         !.user_id = out.ret]
           /\ refresh_tokens' =
                IF out.raised = "none" /\ out.ret # None
                THEN {r \in refresh_tokens : r.token # token}
                ELSE refresh_tokens
           /\ UNCHANGED <<users, user_settings, next_user_id,
                          next_token_id, now, advances, held>>

refresh_token(token) ==
    \E query_fault \in BOOLEAN :
        LET out == verify_refresh_token(refresh_tokens, token, now, query_fault)
        IN /\ last' =
                IF out.raised # "none"
                THEN [Response("refresh", 500, "Internal Server Error") EXCEPT
                         !.raised = out.raised]
                ELSE IF out.ret = None
                THEN Response("refresh", 401, "Invalid or expired refresh token")
                ELSE [Response("refresh", 200, "") EXCEPT
                         !.accessToken =
                             Some(create_access_token(CHOOSE u \in out.ret : TRUE, now)),
                         !.user_id = out.ret]
           /\ UNCHANGED <<users, user_settings, refresh_tokens, next_user_id,
                          next_token_id, now, advances, held>>

logout(token) ==
    LET out == revoke_refresh_token(refresh_tokens, token)
    IN /\ refresh_tokens' = out.rows
       /\ last' = [Response("logout", 200, "Logged out successfully") EXCEPT
                      !.deleted = Some(out.ret)]
       /\ UNCHANGED <<users, user_settings, next_user_id, next_token_id,
                      now, advances, held>>

(* revoke_all_user_tokens, called on the service (no route calls it); it
   returns None, which is what the response record's "deleted" holds. *)
RevokeAll(user_id) ==
    /\ refresh_tokens' = revoke_all_user_tokens(refresh_tokens, user_id)
    /\ last' = Response("revoke_all", 0, "")
    /\ UNCHANGED <<users, user_settings, next_user_id, next_token_id,
                   now, advances, held>>

(* Faulty variant: the access token is accepted only while its subject
   has a refresh-token record. *)
VerifyAccess_session_bound(token) ==
    /\ last' = [Response("verify_access", 0, "") EXCEPT
                   !.user_id =
                       {S \in verify_access_token(token, now) :
                           \E r \in refresh_tokens : r.user_id = S}]
    /\ UNCHANGED <<users, user_settings, refresh_tokens, next_user_id,
                   next_token_id, now, advances, held>>

(* verify_access_token, called on the service with a bearer value. *)
VerifyAccess(token) ==
    /\ last' = [Response("verify_access", 0, "") EXCEPT
                   !.user_id = verify_access_token(token, now)]
    /\ UNCHANGED <<users, user_settings, refresh_tokens, next_user_id,
                   next_token_id, now, advances, held>>

(* Faulty variant: the access token is stored like a refresh token. *)
MintAccess_persisting(user_id) ==
    LET token == create_access_token(user_id, now)
    IN /\ last' = [Response("mint_access", 0, "") EXCEPT
                      !.accessToken = Some(token), !.user_id = Some(user_id)]
       /\ refresh_tokens' = refresh_tokens \cup
              {[id |-> 0, user_id |-> user_id, token |-> token,
                expires_at |-> now + minutes(ACCESS_TOKEN_EXPIRE_MINUTES)]}
       /\ UNCHANGED <<users, user_settings, next_user_id, next_token_id,
                      now, advances, held>>

(* create_access_token, called on the service for a subject (which need
   not be a user that exists). *)
MintAccess(user_id) ==
    /\ last' = [Response("mint_access", 0, "") EXCEPT
                   !.accessToken = Some(create_access_token(user_id, now)),
                   !.user_id = Some(user_id)]
    /\ UNCHANGED <<users, user_settings, refresh_tokens, next_user_id,
                   next_token_id, now, advances, held>>

(* Time passes between calls. *)
AdvanceClock(d) ==
    /\ advances < MaxAdvances
    /\ now' = now + d
    /\ advances' = advances + 1
    /\ UNCHANGED <<users, user_settings, refresh_tokens, next_user_id,
                   next_token_id, held, last>>

(* The authentication handlers served one at a time. *)
Next ==
    \/ \E u \in Usernames, p \in Passwords :
          login(u, p) /\ UNCHANGED <<calls, tracker_vars>>
    \/ \E u \in Usernames, s \in Salts :
          signup(u, ChosenPassword(u), s) /\ UNCHANGED <<calls, tracker_vars>>
    \/ \E t \in Presentable : refresh_token(t) /\ UNCHANGED <<calls, tracker_vars>>
    \/ \E t \in Presentable : logout(t) /\ UNCHANGED <<calls, tracker_vars>>
    \/ \E id \in UserIds : RevokeAll(id) /\ UNCHANGED <<calls, tracker_vars>>
    \/ \E t \in Presentable : VerifyAccess(t) /\ UNCHANGED <<calls, tracker_vars>>
    \/ \E id \in UserIds : MintAccess(id) /\ UNCHANGED <<calls, tracker_vars>>
    \/ \E d \in ClockSteps : AdvanceClock(d) /\ UNCHANGED <<calls, tracker_vars>>

Spec == Init /\ [][Next]_vars

(* ------------------------------------------------------------------ *)
(* Vocabulary of the properties                                        *)
(* ------------------------------------------------------------------ *)

(* What verify_refresh_token returns for t when the store answers. *)
VerifyRefresh(rows, t, now_) == verify_refresh_token(rows, t, now_, FALSE).ret

HeldRefresh == {t \in held : t.type = "refresh"}
HeldAccess == {t \in held : t.type = "access"}

SignatureVerifies(t) == t.sig = SECRET_KEY
EmbeddedExpiryNotPassed(t, now_) == t.exp * TicksPerSec > now_
HasRow(rows, t) == \E r \in rows : r.token = t

(* The step is a login or signup that returned tokens. *)
TokensReturned ==
    /\ next_token_id' = next_token_id + 1
    /\ last'.op \in {"login", "signup"}
    /\ last'.status = 200

(* ------------------------------------------------------------------ *)
(* C1. Revocation over signature: when revoke_refresh_token deletes the
   record of an issued refresh token, verify_refresh_token of that token
   returns None in the resulting state, also while the token is correctly
   signed and its embedded expiry has not passed. *)
C1_RevocationOverSignature ==
    [][\A t \in HeldRefresh :
          (HasRow(refresh_tokens, t) /\ logout(t))
          => /\ last'.deleted = Some(TRUE)
             /\ verify_refresh_token(refresh_tokens', t, now', FALSE)
                   = [raised |-> "none", ret |-> None]]_vars

(* A logout has just deleted a record, and an issued refresh token that is
   signed and unexpired has no record. *)
C1_Witness ==
    /\ last.op = "logout"
    /\ last.deleted = Some(TRUE)
    /\ \E t \in HeldRefresh :
          /\ SignatureVerifies(t)
          /\ EmbeddedExpiryNotPassed(t, now)
          /\ ~HasRow(refresh_tokens, t)

(* ------------------------------------------------------------------ *)
(* C2. In every reachable state verify_refresh_token(token) returns a
   subject S only if the signature verifies, the embedded expiry has not
   passed, and the store holds a record with that token value, user_id = S
   and expires_at strictly after now; when one of the three fails the
   result is None. *)
C2_UsableOnlyWhileAllThreeHold ==
    \A t \in Presentable :
        LET ret == VerifyRefresh(refresh_tokens, t, now)
            AllThree(S) ==
                /\ SignatureVerifies(t)
                /\ EmbeddedExpiryNotPassed(t, now)
                /\ \E r \in refresh_tokens :
                      r.token = t /\ r.user_id = S /\ r.expires_at > now
        IN /\ \A S \in ret : AllThree(S)
           /\ (~\E S \in UserIds : AllThree(S)) => ret = None

(* One bearer value verifies; a forged copy of a token whose record is
   present, and a signed unexpired token without a record, do not. *)
C2_Witness ==
    /\ \E t \in HeldRefresh : VerifyRefresh(refresh_tokens, t, now) # None
    /\ \E t \in Presentable :
          ~SignatureVerifies(t) /\ HasRow(refresh_tokens, [t EXCEPT !.sig = SECRET_KEY])
    /\ \E t \in HeldRefresh :
          /\ EmbeddedExpiryNotPassed(t, now)
          /\ ~HasRow(refresh_tokens, t)
          /\ VerifyRefresh(refresh_tokens, t, now) = None

(* ------------------------------------------------------------------ *)
(* An issued refresh token that has not expired and has no record: the
   sweep deletes expired records only, so a logout or a revoke-all removed it. *)
Revoked(t) ==
    /\ t \in HeldRefresh
    /\ EmbeddedExpiryNotPassed(t, now)
    /\ ~HasRow(refresh_tokens, t)

(* C3. REVOKED is terminal: once the record of an issued, unexpired
   refresh token has been removed (logout or revoke-all), verify_refresh_token
   of that token value returns None in every later state, whatever
   operation follows. *)
C3_RevokedIsTerminal ==
    [][\A t \in HeldRefresh :
          Revoked(t) => VerifyRefresh(refresh_tokens', t, now') = None]_vars

(* ------------------------------------------------------------------ *)
(* C4. revoke_all_user_tokens(subject) makes every issued refresh token
   of that subject fail verify_refresh_token, and every refresh token of
   another subject that verified before the call verifies afterwards. *)
C4_RevokeAllIsPerSubject ==
    [][\A id \in UserIds :
          RevokeAll(id)
          => \A t \in HeldRefresh :
                /\ t.sub = str(id) => VerifyRefresh(refresh_tokens', t, now') = None
                /\ t.sub # str(id)
                   => VerifyRefresh(refresh_tokens', t, now')
                         = VerifyRefresh(refresh_tokens, t, now)]_vars

(* After a revoke-all: an unexpired token of one subject has lost its
   record while a token of another subject still verifies. *)
C4_Witness ==
    /\ last.op = "revoke_all"
    /\ \E t1, t2 \in HeldRefresh :
          /\ t1.sub # t2.sub
          /\ EmbeddedExpiryNotPassed(t1, now)
          /\ ~HasRow(refresh_tokens, t1)
          /\ VerifyRefresh(refresh_tokens, t2, now) # None

(* ------------------------------------------------------------------ *)
UnknownUsername(u) == \A r \in users : r.username # u
WrongPassword(u, p) ==
    \E r \in users : r.username = u /\ ~verify_password_table[p, r.password_hash].ret

AuthFailure == Response("login", 401, "Invalid username or password")

(* C5. login answers with one and the same failure (401, the same detail,
   no tokens, nothing stored) whether the username is unknown or the
   username exists and the password is wrong. *)
C5_LoginFailureIsUndifferentiated ==
    [][\A u \in Usernames, p \in Passwords :
          (/\ last'.op = "login"
           /\ UnknownUsername(u) \/ WrongPassword(u, p)
           /\ login(u, p))
          => /\ last' = AuthFailure
             /\ UNCHANGED <<users, user_settings, refresh_tokens, held>>]_vars

(* The failure has been answered in a state where both causes exist. *)
C5_Witness ==
    /\ last = AuthFailure
    /\ \E u \in Usernames : UnknownUsername(u)
    /\ \E u \in Usernames, p \in Passwords : WrongPassword(u, p)

(* ------------------------------------------------------------------ *)
(* C6. A refresh token is usable immediately after issuance: while the
   response of a successful login or signup for subject S is the last
   call and the clock is before the token's expiry, verify_refresh_token
   of the returned token returns S. *)
C6_UsableImmediately ==
    (last.op \in {"login", "signup"} /\ last.status = 200)
    => \A t \in last.refreshToken :
          EmbeddedExpiryNotPassed(t, now)
          => VerifyRefresh(refresh_tokens, t, now) = last.user_id

C6_Witness ==
    /\ last.op = "login"
    /\ last.status = 200
    /\ advances > 0
    /\ \E t \in last.refreshToken :
          /\ EmbeddedExpiryNotPassed(t, now)
          /\ VerifyRefresh(refresh_tokens, t, now) = last.user_id
          /\ last.user_id # None

(* ------------------------------------------------------------------ *)
(* C7. Token type binding: an access token is never accepted by
   verify_refresh_token and a refresh token is never accepted by
   verify_access_token, in any state. *)
C7_TypeBinding ==
    /\ \A t \in HeldAccess \cup last.accessToken :
          VerifyRefresh(refresh_tokens, t, now) = None
    /\ \A t \in HeldRefresh : verify_access_token(t, now) = None

(* A refresh token whose record is present and unexpired verifies as a
   refresh token, an access token verifies as an access token, and neither
   is accepted as the other. *)
C7_Witness ==
    /\ \E t \in HeldRefresh :
          /\ VerifyRefresh(refresh_tokens, t, now) # None
          /\ verify_access_token(t, now) = None
    /\ \E t \in HeldAccess :
          /\ verify_access_token(t, now) # None
          /\ VerifyRefresh(refresh_tokens, t, now) = None

(* ------------------------------------------------------------------ *)
(* C8. If the expired-row sweep inside create_refresh_token fails, the
   failure is caught and logged, and create_refresh_token still persists
   the new record and returns the token: the login or signup is answered
   with its tokens. (A failure of the commit itself and a duplicate token
   value are other failures and are left out.) *)
C8_SweepFailureDoesNotBlock ==
    (/\ last.op \in {"login", "signup"}
     /\ last.logged
     /\ last.raised \notin {"OperationalError", "IntegrityError"})
    => /\ last.status = 200
       /\ last.refreshToken # None
       /\ \A t \in last.refreshToken : HasRow(refresh_tokens, t)

(* ------------------------------------------------------------------ *)
RowsOf(rows, user_id) == {r \in rows : r.user_id = user_id}

(* What the store must hold for subject S after a mint that returned a
   token: the records of S that were live, plus the one new record. *)
SweptAndMinted(S) ==
    LET minted == {r \in refresh_tokens' : r.token \in last'.refreshToken}
    IN /\ Cardinality(minted) = 1
       /\ minted \cap refresh_tokens = {}
       /\ RowsOf(refresh_tokens', S)
             = {r \in RowsOf(refresh_tokens, S) : r.expires_at > now} \cup minted

(* C9, as claimed. After create_refresh_token(S) the store holds for S
   exactly the records of S whose expires_at is strictly after now, plus
   the newly minted record. *)
C9_SweepResult_AsClaimed ==
    [][TokensReturned => \A S \in last'.user_id : SweptAndMinted(S)]_vars

(* C9, amended. The same, for a create_refresh_token(S) that returned a
   token and whose sweep did not fail. *)
C9_SweepResult ==
    [][(TokensReturned /\ ~last'.logged)
       => \A S \in last'.user_id : SweptAndMinted(S)]_vars

(* After a login whose sweep ran: a record of the subject that had expired
   is gone, a live one is kept beside the new one. *)
C9_Witness ==
    /\ last.op = "login"
    /\ last.status = 200
    /\ ~last.logged
    /\ \E S \in last.user_id :
          /\ Cardinality(RowsOf(refresh_tokens, S)) = 2
          /\ \E t \in HeldRefresh :
                /\ t.sub = str(S)
                /\ (t.exp + 1) * TicksPerSec <= now
                /\ ~HasRow(refresh_tokens, t)

(* ------------------------------------------------------------------ *)
(* C10. A storage failure in the lookup or in the commit propagates:
   verify_refresh_token raises (it does not return None) when its query
   fails, create_refresh_token raises (it returns no token and stores
   nothing) when its commit fails, and the handler answers 500 without
   tokens. *)
C10_StorageFailurePropagates ==
    /\ \A t \in Presentable :
          (SignatureVerifies(t) /\ EmbeddedExpiryNotPassed(t, now) /\ t.type = "refresh")
          => verify_refresh_token(refresh_tokens, t, now, TRUE).raised # "none"
    /\ \A u \in users, sf \in SweepFaults :
          LET out == create_refresh_token(refresh_tokens, next_token_id, u.id, now,
                                          sf, TRUE)
          IN out.raised # "none" /\ out.ret = None /\ out.rows = refresh_tokens
    /\ last.raised # "none"
       => last.status = 500 /\ last.accessToken = None /\ last.refreshToken = None

(* A refresh whose query failed has been answered 500, and a login whose
   commit failed has left no token behind. *)
C10_Witness ==
    /\ last.op = "refresh"
    /\ last.status = 500
    /\ last.raised = "OperationalError"
    /\ HeldRefresh # {}

(* ------------------------------------------------------------------ *)
(* The token value create_refresh_token encodes for subject S at now_. *)
RefreshTokenValue(S, now_) ==
    jwt_encode([sub |-> str(S), exp |-> now_ + days(REFRESH_TOKEN_EXPIRE_DAYS),
                type |-> "refresh"], SECRET_KEY)

(* The step is a login or signup that reached create_refresh_token for S. *)
MintAttempt(S) ==
    /\ now' = now
    /\ last'.op \in {"login", "signup"}
    /\ last'.user_id = Some(S)

(* C11. Token values are unique in the store in every reachable state: an
   insert of a token value that already has a record fails with an error
   (the login is answered 500, the failure is not silently ignored), no
   token is returned to the caller, and the committed refresh-token records
   are the same before and after. *)
C11_DuplicatePutFails ==
    [][/\ \A r1, r2 \in refresh_tokens' : r1.token = r2.token => r1 = r2
       /\ \A S \in UserIds :
             (MintAttempt(S) /\ HasRow(refresh_tokens, RefreshTokenValue(S, now)))
             => /\ last'.status = 500
                /\ last'.raised # "none"
                /\ last'.accessToken = None
                /\ last'.refreshToken = None
                /\ refresh_tokens' = refresh_tokens
                /\ held' = held]_vars

(* A login has hit the unique index: it was answered 500 and the record
   that holds the token value is still there. *)
C11_Witness ==
    /\ last.op = "login"
    /\ last.status = 500
    /\ last.raised = "IntegrityError"
    /\ \E S \in last.user_id : HasRow(refresh_tokens, RefreshTokenValue(S, now))

(* ------------------------------------------------------------------ *)
(* C12. A duplicate token value is unreachable through the service: two
   distinct create_refresh_token calls, also two calls for the same subject
   within one second, produce different token values, so no login or
   signup fails on the unique index. *)
C12_DuplicateUnreachable ==
    [][\A S \in UserIds :
          MintAttempt(S)
          => /\ RefreshTokenValue(S, now) \notin held
             /\ last'.raised # "IntegrityError"]_vars

(* ------------------------------------------------------------------ *)
(* The clock has passed the embedded expiry of t, or the persisted expiry
   of a record of t, at instant x. *)
ExpiryPassed(t, x) ==
    \/ t.exp * TicksPerSec <= x
    \/ \E r \in refresh_tokens : r.token = t /\ r.expires_at <= x

(* The present, and the instants around the two expiries of t that are not
   in the past: the store stays as it is while no call is made, so each of
   them is an instant at which the token can be presented to this store. *)
LaterInstants(t) ==
    {x \in {now}
           \cup ((t.exp * TicksPerSec - 1)..((t.exp + 1) * TicksPerSec))
           \cup {r.expires_at : r \in {q \in refresh_tokens : q.token = t}} :
        x >= now}

(* C13. Expiry is detected lazily and is permanent: once the clock has
   passed a refresh token's embedded or persisted expiry,
   verify_refresh_token returns None for it, at that instant and in every
   later state, whether or not a sweep has run and whether or not its
   record is still in the store. *)
C13_ExpiryIsPermanent ==
    [][\A t \in HeldRefresh :
          /\ \A x \in LaterInstants(t) :
                ExpiryPassed(t, x) => VerifyRefresh(refresh_tokens, t, x) = None
          /\ ExpiryPassed(t, now)
             => VerifyRefresh(refresh_tokens', t, now') = None]_vars

(* A refresh with an expired token has been answered 401 while the record
   of the token is still in the store (no sweep has removed it). *)
C13_Witness ==
    /\ last.op = "refresh"
    /\ last.status = 401
    /\ \E t \in HeldRefresh :
          /\ SignatureVerifies(t)
          /\ HasRow(refresh_tokens, t)
          /\ ExpiryPassed(t, now)
          /\ VerifyRefresh(refresh_tokens, t, now) = None

(* ------------------------------------------------------------------ *)
(* The step is a call that minted access token tok for subject S at now. *)
AccessMinted(tok, S) ==
    /\ now' = now
    /\ last'.op \in {"login", "signup", "refresh", "mint_access"}
    /\ last'.accessToken = Some(tok)
    /\ last'.user_id = Some(S)

(* The mint instant m, and every instant within a second of m + TTL. *)
InstantsAround(m) ==
    {m} \cup ((m + minutes(ACCESS_TOKEN_EXPIRE_MINUTES) - TicksPerSec)
               ..(m + minutes(ACCESS_TOKEN_EXPIRE_MINUTES) + TicksPerSec))

(* C14, as claimed. An access token minted for S by create_access_token
   verifies to S at every instant before mint time + 30 minutes and to None
   at every instant after it. *)
C14_AccessLifetime_AsClaimed ==
    [][\A tok \in last'.accessToken, S \in last'.user_id :
          AccessMinted(tok, S)
          => \A x \in InstantsAround(now) :
                /\ x < now + minutes(ACCESS_TOKEN_EXPIRE_MINUTES)
                   => verify_access_token(tok, x) = Some(S)
                /\ x > now + minutes(ACCESS_TOKEN_EXPIRE_MINUTES)
                   => verify_access_token(tok, x) = None]_vars

(* C14, amended. The token verifies to S at every instant before the
   expiry written into it, which is mint time + 30 minutes cut to the whole
   second, and to None at that instant and at every instant after it. *)
C14_AccessLifetime ==
    [][\A tok \in last'.accessToken, S \in last'.user_id :
          AccessMinted(tok, S)
          => LET expiry ==
                     timegm(now + minutes(ACCESS_TOKEN_EXPIRE_MINUTES)) * TicksPerSec
             IN \A x \in InstantsAround(now) :
                   /\ x < expiry => verify_access_token(tok, x) = Some(S)
                   /\ x >= expiry => verify_access_token(tok, x) = None]_vars

(* An access token has been minted at an instant that is not a whole
   second and verifies, while an access token minted earlier has expired. *)
C14_Witness ==
    /\ now % TicksPerSec # 0
    /\ last.op \in {"login", "signup", "refresh", "mint_access"}
    /\ \E tok \in last.accessToken :
          /\ tok.exp * TicksPerSec < now + minutes(ACCESS_TOKEN_EXPIRE_MINUTES)
          /\ verify_access_token(tok, now) = last.user_id
          /\ last.user_id # None
    /\ \E t \in HeldAccess : verify_access_token(t, now) = None

(* ------------------------------------------------------------------ *)
(* What signature, type and expiry alone say about bearer value t. *)
AccessVerdict(t, now_) ==
    IF SignatureVerifies(t) /\ t.type = "access" /\ EmbeddedExpiryNotPassed(t, now_)
    THEN Some(int(t.sub))
    ELSE None

(* C15. Access-token validity depends only on signature and expiry: what
   verify_access_token answers for a token at an instant is the same in
   every store state, so a logout, a revoke-all or a sweep does not change
   whether a minted access token verifies. *)
C15_AccessValidityIgnoresStore ==
    [][\A t \in Presentable :
          (last'.op = "verify_access" /\ VerifyAccess(t))
          => last'.user_id = AccessVerdict(t, now)]_vars

(* An access token has verified to its subject while the subject's
   refresh token is revoked and the subject has no record left. *)
C15_Witness ==
    /\ last.op = "verify_access"
    /\ \E S \in last.user_id :
          /\ RowsOf(refresh_tokens, S) = {}
          /\ \E t \in HeldRefresh : t.sub = str(S) /\ Revoked(t)

(* ------------------------------------------------------------------ *)
(* C16. create_access_token always succeeds, for any subject, and has no
   storage interaction: it returns a token that verifies to the subject,
   and the refresh-token records and the user rows are the same before and
   after the call. *)
C16_MintAccessIsPure ==
    [][\A id \in UserIds :
          (last'.op = "mint_access" /\ MintAccess(id))
          => /\ last'.raised = "none"
             /\ \E tok \in last'.accessToken :
                   verify_access_token(tok, now') = Some(id)
             /\ UNCHANGED <<users, user_settings, refresh_tokens,
                            next_user_id, next_token_id>>]_vars

(* An access token has been minted for a subject that is no user, beside
   a store that holds records. *)
C16_Witness ==
    /\ last.op = "mint_access"
    /\ last.accessToken # None
    /\ \E S \in last.user_id : \A u \in users : u.id # S
    /\ refresh_tokens # {}

(* ------------------------------------------------------------------ *)
(* C17. revoke_refresh_token(token) returns True exactly when a record
   with that token value existed at the call, and is idempotent: a second
   call with the same token returns False and leaves the store as the first
   call left it. *)
C17_RevokeIsIdempotent ==
    [][\A t \in Presentable :
          (last'.op = "logout" /\ logout(t))
          => /\ last'.deleted = Some(HasRow(refresh_tokens, t))
             /\ revoke_refresh_token(refresh_tokens', t)
                   = [ret |-> FALSE, rows |-> refresh_tokens']]_vars

(* A logout of a token that had been revoked before has returned False. *)
C17_Witness ==
    /\ last.op = "logout"
    /\ last.deleted = Some(FALSE)
    /\ refresh_tokens # {}
    /\ \E t \in HeldRefresh : Revoked(t)

(* ------------------------------------------------------------------ *)
(* C18. revoke_refresh_token(token) deletes exactly one record, the one
   with that token value: every other record, of the same subject and of
   other subjects, is unchanged, and the other refresh tokens verify as
   before. *)
C18_RevokeDeletesOne ==
    [][\A t \in Presentable :
          (last'.op = "logout" /\ HasRow(refresh_tokens, t) /\ logout(t))
          => /\ refresh_tokens' = {r \in refresh_tokens : r.token # t}
             /\ Cardinality(refresh_tokens') = Cardinality(refresh_tokens) - 1
             /\ \A t2 \in HeldRefresh \ {t} :
                   VerifyRefresh(refresh_tokens', t2, now')
                      = VerifyRefresh(refresh_tokens, t2, now)]_vars

(* After a logout that deleted a record, another refresh token of the same
   subject still verifies. *)
C18_Witness ==
    /\ last.op = "logout"
    /\ last.deleted = Some(TRUE)
    /\ \E t1, t2 \in HeldRefresh :
          /\ t1.sub = t2.sub
          /\ Revoked(t1)
          /\ VerifyRefresh(refresh_tokens, t2, now) # None

(* ------------------------------------------------------------------ *)
(* What revoke_all_user_tokens(id) does to the store: every record of the
   subject is gone and no other. *)
DeletesAllOf(id) ==
    /\ RowsOf(refresh_tokens', id) = {}
    /\ refresh_tokens' = refresh_tokens \ RowsOf(refresh_tokens, id)
    /\ Cardinality(refresh_tokens) - Cardinality(refresh_tokens')
          = Cardinality(RowsOf(refresh_tokens, id))

(* C19, as claimed. revoke_all_user_tokens(subject) returns the count of
   records it deleted, which is the number of records the subject owned
   immediately before the call. *)
C19_RevokeAllCount_AsClaimed ==
    [][\A id \in UserIds :
          (last'.op = "revoke_all" /\ RevokeAll(id))
          => /\ last'.deleted = Some(Cardinality(RowsOf(refresh_tokens, id)))
             /\ DeletesAllOf(id)]_vars

(* C19, amended. revoke_all_user_tokens(subject) deletes exactly the
   records the subject owned immediately before the call, and returns
   nothing. *)
C19_RevokeAllCount ==
    [][\A id \in UserIds :
          (last'.op = "revoke_all" /\ RevokeAll(id))
          => /\ last'.deleted = None
             /\ DeletesAllOf(id)]_vars

(* After a revoke-all that deleted two records of one subject, a record of
   another subject is in the store. *)
C19_Witness ==
    /\ last.op = "revoke_all"
    /\ refresh_tokens # {}
    /\ \E t1, t2 \in HeldRefresh :
          /\ t1 # t2
          /\ t1.sub = t2.sub
          /\ Revoked(t1)
          /\ Revoked(t2)

(* ------------------------------------------------------------------ *)
(* C20. Refresh-token records are never mutated in place: across every
   operation a record that is in the store before and after has the same
   token value, user_id and expires_at; records appear by insertion and
   disappear by deletion only. *)
C20_RecordsAreImmutable ==
    [][\A r \in refresh_tokens, q \in refresh_tokens' :
          r.id = q.id
          => /\ q.token = r.token
             /\ q.user_id = r.user_id
             /\ q.expires_at = r.expires_at]_vars

(* A login has swept one record of the subject and inserted another while
   a record of another subject stayed in the store. *)
C20_Witness ==
    /\ last.op = "login"
    /\ last.status = 200
    /\ ~last.logged
    /\ \E S \in last.user_id :
          /\ \E t \in HeldRefresh :
                t.sub = str(S) /\ ExpiryPassed(t, now) /\ ~HasRow(refresh_tokens, t)
          /\ \E r \in refresh_tokens : r.user_id # S

(* ------------------------------------------------------------------ *)
(* C26. The sweep inside create_refresh_token(S) removes only records of
   S whose expires_at is at or before now: it never deletes a record that
   verify_refresh_token would accept at that instant, and it leaves every
   record of every other subject, expired or not, unchanged. *)
C26_SweepRemovesOnlyExpiredOfSubject ==
    [][\A S \in UserIds :
          MintAttempt(S)
          => /\ \A r \in refresh_tokens \ refresh_tokens' :
                   /\ r.user_id = S
                   /\ r.expires_at <= now
                   /\ VerifyRefresh(refresh_tokens, r.token, now) = None
             /\ \A r \in refresh_tokens : r.user_id # S => r \in refresh_tokens']_vars

(* A login has swept an expired record of its subject, and an expired
   record of another subject is still in the store. *)
C26_Witness ==
    /\ last.op = "login"
    /\ last.status = 200
    /\ ~last.logged
    /\ \E S \in last.user_id :
          /\ \E t \in HeldRefresh :
                t.sub = str(S) /\ ExpiryPassed(t, now) /\ ~HasRow(refresh_tokens, t)
          /\ \E r \in refresh_tokens : r.user_id # S /\ r.expires_at <= now

(* ------------------------------------------------------------------ *)
(* C27. /auth/refresh does not rotate or consume the refresh token: a
   successful or failed refresh leaves the refresh-token store unchanged,
   and a token that was accepted is accepted again, so it can mint any
   number of access tokens until it expires or is revoked. *)
C27_RefreshDoesNotConsume ==
    [][\A t \in Presentable :
          (last'.op = "refresh" /\ refresh_token(t))
          => /\ UNCHANGED <<refresh_tokens, next_token_id, users, user_settings>>
             /\ last'.refreshToken = None
             /\ last'.status = 200
                => /\ VerifyRefresh(refresh_tokens', t, now') = last'.user_id
                   /\ last'.user_id # None]_vars

(* A refresh has been answered 200 and the refresh token of that subject
   still has its record and still verifies. *)
C27_Witness ==
    /\ last.op = "refresh"
    /\ last.status = 200
    /\ \E t \in HeldRefresh :
          /\ HasRow(refresh_tokens, t)
          /\ VerifyRefresh(refresh_tokens, t, now) = last.user_id
          /\ last.user_id # None

(* ------------------------------------------------------------------ *)
(* The password hasher against stored records of every shape           *)
(* ------------------------------------------------------------------ *)

(* One account whose password_hash column holds any stored string: a
   record get_password_hash wrote, a malformed one or a corrupt one. *)
HasherInit ==
    /\ \E h \in StoredRecords :
          users = {[id |-> 1, username |-> UsernamePool[1], password_hash |-> h]}
    /\ user_settings = {[user_id |-> 1]}
    /\ refresh_tokens = {}
    /\ next_user_id = 2
    /\ next_token_id = 1
    /\ now = 0
    /\ advances = 0
    /\ held = {}
    /\ last = Response("start", 0, "")
    /\ NoCalls
    /\ NoTrackerRows

HasherNext ==
    \/ \E u \in Usernames, p \in LoginPasswords :
          login(u, p) /\ UNCHANGED <<calls, tracker_vars>>
    \/ \E d \in ClockSteps : AdvanceClock(d) /\ UNCHANGED <<calls, tracker_vars>>

HasherSpec == HasherInit /\ [][HasherNext]_vars

(* The stored record was written by get_password_hash for password p. *)
WrittenFor(h, p) == \E s \in Salts : h = get_password_hash(p, s)

(* C23, as claimed. verify_password(p1, get_password_hash(p2)) is true
   exactly when p1 = p2. *)
C23_RoundTrip_AsClaimed ==
    \A u \in users : \A p1, p2 \in LoginPasswords :
        WrittenFor(u.password_hash, p2)
        => verify_password_table[p1, u.password_hash]
              = [raised |-> "none", ret |-> (p1 = p2)]

(* C23, amended. verify_password(p, get_password_hash(p)) is true for every
   password p, and verify_password(p1, get_password_hash(p2)) is true
   exactly when p1 and p2 give the same HMAC key, that is when they are
   equal up to trailing NUL characters. *)
C23_RoundTrip ==
    \A u \in users : \A p1, p2 \in LoginPasswords :
        WrittenFor(u.password_hash, p2)
        => /\ verify_password_table[p2, u.password_hash]
                 = [raised |-> "none", ret |-> TRUE]
           /\ verify_password_table[p1, u.password_hash]
                 = [raised |-> "none", ret |-> (hmac_key(p1) = hmac_key(p2))]

(* C23: a login was accepted against a record get_password_hash wrote, and
   another password of the pool is refused against it. *)
C23_Witness ==
    /\ last.op = "login"
    /\ last.status = 200
    /\ \E u \in users : \E p1, p2 \in LoginPasswords :
          /\ WrittenFor(u.password_hash, p2)
          /\ last.user_id = Some(u.id)
          /\ hmac_key(p1) # hmac_key(p2)
          /\ ~verify_password_table[p1, u.password_hash].ret

(* C24. Against a malformed stored record (wrong field count, non-numeric
   iteration count, non-hex salt) verify_password returns False without
   raising for every password, and every login answers with the ordinary
   authentication failure. *)
C24_MalformedIsFalse ==
    \A u \in users :
        u.password_hash \in MalformedRecords
        => /\ \A p \in LoginPasswords :
                 /\ verify_password_table[p, u.password_hash]
                       = [raised |-> "none", ret |-> FALSE]
                 /\ authenticate_user(users, u.username, p)
                       = [raised |-> "none", ret |-> None]
           /\ last.op = "login" => last = AuthFailure

(* C24: a login was refused while the account's record is malformed. *)
C24_Witness ==
    /\ last = AuthFailure
    /\ \E u \in users : u.password_hash \in MalformedRecords

(* ------------------------------------------------------------------ *)
(* Requests served concurrently                                        *)
(* Each request has its own database session (get_db); a statement is  *)
(* one step, and what a transaction wrote is seen by the others when   *)
(* it commits. No storage fault is injected unless an action says so.  *)
(* ------------------------------------------------------------------ *)

(* Time that passes while requests are in flight: a tick or the access
   token's lifetime (no request stays in flight for the lifetime of a
   refresh token). *)
RequestClockSteps == {1, minutes(ACCESS_TOKEN_EXPIRE_MINUTES)}

(* A store that earlier requests left behind: every user signed up, users
   1 and 2 logged in at time 0, user 1 once more one tick before those
   tokens expired; the clock stands one second after their expiry. *)
Epoch == days(REFRESH_TOKEN_EXPIRE_DAYS) + TicksPerSec
SeededUsers ==
    {[id |-> i, username |-> UsernamePool[i],
      password_hash |-> get_password_hash(ChosenPassword(UsernamePool[i]),
                                          CHOOSE s \in Salts : TRUE)] : i \in UserIds}
SeededTokens ==
    LET first == create_refresh_token({}, 1, 1, 0, "none", FALSE)
        second == create_refresh_token(first.rows, first.next_id, 2, 0, "none", FALSE)
    IN create_refresh_token(second.rows, second.next_id, 1,
                            days(REFRESH_TOKEN_EXPIRE_DAYS) - 1, "none", FALSE)

SeededInit ==
    /\ users = SeededUsers
    /\ user_settings = {[user_id |-> u.id] : u \in SeededUsers}
    /\ refresh_tokens = SeededTokens.rows
    /\ next_user_id = MaxUsers + 1
    /\ next_token_id = SeededTokens.next_id
    /\ now = Epoch
    /\ advances = 0
    /\ held = {r.token : r \in SeededTokens.rows}
    /\ last = Response("start", 0, "")
    /\ NoCalls
    /\ NoTrackerRows

CallToken(i) == CHOOSE t \in calls[i].token : TRUE

(* create_refresh_token, lines 78-82: the clock is read and the token encoded. *)
create_refresh_token_begin(i, user_id) ==
    /\ calls[i].pc = "idle"
    /\ LET expires_at == now + days(REFRESH_TOKEN_EXPIRE_DAYS)
           to_encode == [sub |-> str(user_id), exp |-> expires_at, type |-> "refresh"]
       IN calls' = [calls EXCEPT ![i] =
                       [IdleCall EXCEPT !.op = "create_refresh_token", !.pc = "sweep",
                                        !.user_id = user_id, !.now_ = now,
                                        !.token = Some(jwt_encode(to_encode, SECRET_KEY))]]
    /\ UNCHANGED <<auth_vars, tracker_vars>>

(* Faulty variant: the sweep's DELETE has no filter on expires_at. *)
create_refresh_token_sweep_all_rows(i) ==
    /\ calls[i].pc = "sweep"
    /\ LET expired == {r \in refresh_tokens : r.user_id = calls[i].user_id}
       IN /\ \A j \in CallIds \ {i} :
                calls[j].pc = "commit" => calls[j].found \cap expired = {}
          /\ calls' = [calls EXCEPT ![i].pc = "commit", ![i].found = expired]
    /\ UNCHANGED <<auth_vars, tracker_vars>>

(* create_refresh_token, lines 85-91: the sweep's DELETE runs in the call's
   transaction; it waits while another transaction holds a lock on a row
   it would delete. *)
create_refresh_token_sweep(i) ==
    /\ calls[i].pc = "sweep"
    /\ LET expired == ExpiredRowsOf(refresh_tokens, calls[i].user_id, calls[i].now_)
       IN /\ \A j \in CallIds \ {i} :
                calls[j].pc = "commit" => calls[j].found \cap expired = {}
          /\ calls' = [calls EXCEPT ![i].pc = "commit", ![i].found = expired]
    /\ UNCHANGED <<auth_vars, tracker_vars>>

(* create_refresh_token, lines 94-98: INSERT and COMMIT; the unique index
   on the token value rejects a value that is already stored, and the
   session is then closed without a commit. *)
create_refresh_token_commit(i) ==
    /\ calls[i].pc = "commit"
    /\ LET token == CallToken(i)
           kept == refresh_tokens \ calls[i].found
           db_token == [id |-> next_token_id, user_id |-> calls[i].user_id,
                        token |-> token,
                        expires_at |-> calls[i].now_ + days(REFRESH_TOKEN_EXPIRE_DAYS)]
       IN IF \E r \in kept : r.token = token
          THEN /\ refresh_tokens' = refresh_tokens
               /\ calls' = [calls EXCEPT ![i].pc = "done", ![i].status = 500,
                                         ![i].raised = "IntegrityError"]
          ELSE /\ refresh_tokens' = kept \cup {db_token}
               /\ calls' = [calls EXCEPT ![i].pc = "done", ![i].status = 200,
                                         ![i].ret = Some(token)]
    /\ next_token_id' = next_token_id + 1
    /\ UNCHANGED <<users, user_settings, next_user_id, now, advances, held, last,
                   tracker_vars>>

(* Time passes while requests are in flight. *)
RequestClock(d) ==
    /\ AdvanceClock(d)
    /\ UNCHANGED <<calls, tracker_vars>>

MintNext ==
    \/ \E i \in CallIds, id \in UserIds : create_refresh_token_begin(i, id)
    \/ \E i \in CallIds : create_refresh_token_sweep(i)
    \/ \E i \in CallIds : create_refresh_token_commit(i)
    \/ \E d \in RequestClockSteps : RequestClock(d)

MintSpec == SeededInit /\ [][MintNext]_vars

(* revoke_refresh_token, line 146: the SELECT. *)
revoke_refresh_token_select(i, token) ==
    /\ calls[i].pc = "idle"
    /\ LET db_token == {r \in refresh_tokens : r.token = token}
       IN calls' = [calls EXCEPT ![i] =
                       IF db_token # {}
                       THEN [IdleCall EXCEPT !.op = "revoke_refresh_token",
                                             !.pc = "delete", !.token = Some(token),
                                             !.found = db_token]
                       ELSE [IdleCall EXCEPT !.op = "revoke_refresh_token",
                                             !.pc = "done", !.token = Some(token),
                                             !.status = 200, !.ret = Some(FALSE)]]
    /\ UNCHANGED <<auth_vars, tracker_vars>>

(* Faulty variant: the row is marked deleted but the DELETE is not committed. *)
revoke_refresh_token_delete_uncommitted(i) ==
    /\ calls[i].pc = "delete"
    /\ calls' = [calls EXCEPT ![i].pc = "done", ![i].status = 200,
                              ![i].ret = Some(TRUE)]
    /\ UNCHANGED <<auth_vars, tracker_vars>>

(* revoke_refresh_token, lines 148-150: DELETE by primary key and COMMIT. A
   DELETE that matches no row, because another request deleted it first,
   is a warning of the ORM, not an error. *)
revoke_refresh_token_delete(i) ==
    /\ calls[i].pc = "delete"
    /\ refresh_tokens' = refresh_tokens \ calls[i].found
    /\ calls' = [calls EXCEPT ![i].pc = "done", ![i].status = 200,
                              ![i].ret = Some(TRUE)]
    /\ UNCHANGED <<users, user_settings, next_user_id, next_token_id, now, advances,
                   held, last, tracker_vars>>

(* verify_refresh_token, lines 118-121: the token is decoded. *)
verify_refresh_token_decode(i, token) ==
    /\ calls[i].pc = "idle"
    /\ LET decoded == jwt_decode(token, SECRET_KEY, now)
           call == [IdleCall EXCEPT !.op = "verify_refresh_token", !.token = Some(token)]
       IN calls' = [calls EXCEPT ![i] =
                       IF decoded.raised # "none"
                       THEN [call EXCEPT !.pc = "done", !.status = 200]
                       ELSE IF Payload(decoded).type # "refresh"
                       THEN [call EXCEPT !.pc = "done", !.status = 200]
                       ELSE [call EXCEPT !.pc = "query",
                                         !.user_id = int(Payload(decoded).sub)]]
    /\ UNCHANGED <<auth_vars, tracker_vars>>

(* verify_refresh_token, lines 124-137: the lookup, at the time it runs. *)
verify_refresh_token_query(i) ==
    /\ calls[i].pc = "query"
    /\ LET db_token == find_valid(refresh_tokens, CallToken(i), calls[i].user_id, now)
       IN calls' = [calls EXCEPT ![i].pc = "done", ![i].status = 200,
                                 ![i].ret = IF db_token = {} THEN None
                                            ELSE Some(calls[i].user_id)]
    /\ UNCHANGED <<auth_vars, tracker_vars>>

RevokeNext ==
    \/ \E i \in CallIds, t \in held : revoke_refresh_token_select(i, t)
    \/ \E i \in CallIds : revoke_refresh_token_delete(i)
    \/ \E i \in CallIds, t \in held : verify_refresh_token_decode(i, t)
    \/ \E i \in CallIds : verify_refresh_token_query(i)
    \/ \E d \in RequestClockSteps : RequestClock(d)

RevokeSpec == SeededInit /\ [][RevokeNext]_vars

(* signup, lines 44-49: the lookup of the username. *)
signup_check(i, username) ==
    /\ calls[i].pc = "idle"
    /\ LET existing_user == {u \in users : u.username = username}
           call == [IdleCall EXCEPT !.op = "signup", !.username = username]
       IN calls' = [calls EXCEPT ![i] =
                       IF existing_user # {}
                       THEN [call EXCEPT !.pc = "done", !.status = 400,
                                         !.detail = "Username already exists"]
                       ELSE [call EXCEPT !.pc = "create_user"]]
    /\ UNCHANGED <<auth_vars, tracker_vars>>

(* Faulty variant: users.username has no unique index. *)
signup_create_user_no_unique(i, salt) ==
    /\ calls[i].pc = "create_user"
    /\ LET username == calls[i].username
           user == [id |-> next_user_id, username |-> username,
                    password_hash |-> get_password_hash(ChosenPassword(username), salt)]
       IN /\ users' = users \cup {user}
          /\ calls' = [calls EXCEPT ![i].pc = "settings", ![i].user_id = user.id]
    /\ next_user_id' = next_user_id + 1
    /\ UNCHANGED <<user_settings, refresh_tokens, next_token_id, now, advances, held,
                   last, tracker_vars>>

(* signup, line 53, create_user: INSERT of the user and COMMIT. The unique
   index on users.username rejects a second row; signup's except
   IntegrityError (lines 59-66) rolls back and answers 400. *)
signup_create_user(i, salt) ==
    /\ calls[i].pc = "create_user"
    /\ LET username == calls[i].username
           user == [id |-> next_user_id, username |-> username,
                    password_hash |-> get_password_hash(ChosenPassword(username), salt)]
       IN IF \E u \in users : u.username = username
          THEN /\ users' = users
               /\ calls' = [calls EXCEPT ![i].pc = "done", ![i].status = 400,
                                         ![i].detail = "Username already exists"]
          ELSE /\ users' = users \cup {user}
               /\ calls' = [calls EXCEPT ![i].pc = "settings", ![i].user_id = user.id]
    /\ next_user_id' = next_user_id + 1
    /\ UNCHANGED <<user_settings, refresh_tokens, next_token_id, now, advances, held,
                   last, tracker_vars>>

(* signup, lines 56-58: INSERT of the default settings and a second COMMIT.
   An error of this commit other than IntegrityError is not caught. *)
signup_settings(i, commit_fault) ==
    /\ calls[i].pc = "settings"
    /\ IF commit_fault
       THEN /\ user_settings' = user_settings
            /\ calls' = [calls EXCEPT ![i].pc = "done", ![i].status = 500,
                                      ![i].raised = "OperationalError"]
       ELSE /\ user_settings' = user_settings \cup {[user_id |-> calls[i].user_id]}
            /\ calls' = [calls EXCEPT ![i].pc = "tokens"]
    /\ UNCHANGED <<users, refresh_tokens, next_user_id, next_token_id, now, advances,
                   held, last, tracker_vars>>

(* signup, lines 68-75: the two tokens and the response. *)
signup_tokens(i) ==
    /\ calls[i].pc = "tokens"
    /\ LET access_token == create_access_token(calls[i].user_id, now)
           out == create_refresh_token(refresh_tokens, next_token_id, calls[i].user_id,
                                       now, "none", FALSE)
       IN /\ refresh_tokens' = out.rows
          /\ next_token_id' = out.next_id
          /\ IF out.raised # "none"
             THEN /\ calls' = [calls EXCEPT ![i].pc = "done", ![i].status = 500,
                                            ![i].raised = out.raised]
                  /\ held' = held
             ELSE /\ calls' = [calls EXCEPT ![i].pc = "done", ![i].status = 200,
                                            ![i].detail = "Account created successfully",
                                            ![i].token = out.ret, ![i].ret = out.ret]
                  /\ held' = held \cup {access_token} \cup out.ret
    /\ UNCHANGED <<users, user_settings, next_user_id, now, advances, last, tracker_vars>>

SignupNext ==
    \/ \E i \in CallIds, u \in Usernames : signup_check(i, u)
    \/ \E i \in CallIds, s \in Salts : signup_create_user(i, s)
    \/ \E i \in CallIds, commit_fault \in BOOLEAN : signup_settings(i, commit_fault)
    \/ \E i \in CallIds : signup_tokens(i)
    \/ \E d \in RequestClockSteps : RequestClock(d)

SignupSpec == Init /\ [][SignupNext]_vars

(* The calls of an operation, and those that have returned. *)
CallsOf(op) == {i \in CallIds : calls[i].op = op}
Returned(op) == {i \in CallsOf(op) : calls[i].pc = "done"}

(* C21. A create_refresh_token call whose token value no other call puts
   succeeds, under every interleaving with the other calls (for the same
   or another subject), and its record is in the store afterwards. *)
C21_DistinctMintsDoNotInterfere ==
    \A i \in Returned("create_refresh_token") :
        (\A j \in CallIds \ {i} : calls[j].token # calls[i].token)
        => /\ calls[i].raised = "none"
           /\ calls[i].ret = calls[i].token
           /\ \E r \in refresh_tokens :
                 /\ r.token = CallToken(i)
                 /\ r.user_id = calls[i].user_id

(* C21: two calls for the same subject with distinct values and a call for
   another subject have all returned, all three records are stored, and a
   sweep has removed an expired record. *)
C21_Witness ==
    \E i, j, k \in Returned("create_refresh_token") :
        /\ i # j
        /\ calls[i].user_id = calls[j].user_id
        /\ calls[k].user_id # calls[i].user_id
        /\ calls[i].token # calls[j].token
        /\ HasRow(refresh_tokens, CallToken(i))
        /\ HasRow(refresh_tokens, CallToken(j))
        /\ HasRow(refresh_tokens, CallToken(k))
        /\ \E r \in SeededTokens.rows : r \notin refresh_tokens

(* C22. Under every interleaving of revoke_refresh_token and
   verify_refresh_token calls: no call ends with an error, once a revoke
   of a token has returned the store holds no record of that token, and a
   verify_refresh_token that returns after a revoke of its token had
   returned (so also every one that started after it) returns None. *)
C22_RevokeAndVerifyAreSafe ==
    [][/\ \A i \in CallIds : calls'[i].raised = "none"
       /\ \A i \in CallIds :
             (calls'[i].op = "revoke_refresh_token" /\ calls'[i].pc = "done")
             => ~HasRow(refresh_tokens', CHOOSE t \in calls'[i].token : TRUE)
       /\ \A i \in CallIds :
             (/\ calls'[i].op = "verify_refresh_token"
              /\ calls'[i].pc = "done"
              /\ calls[i].pc # "done"
              /\ \E j \in Returned("revoke_refresh_token") :
                    calls[j].token = calls'[i].token)
             => calls'[i].ret = None]_vars

(* C22: two revokes of one unexpired token both found the record and both
   returned True, and a verify of that token that had found it decodable
   then returned None. *)
C22_Witness ==
    \E i, j \in Returned("revoke_refresh_token"), k \in Returned("verify_refresh_token") :
        /\ i # j
        /\ calls[i].token = calls[j].token
        /\ calls[k].token = calls[i].token
        /\ calls[i].ret = Some(TRUE)
        /\ calls[j].ret = Some(TRUE)
        /\ calls[k].ret = None
        /\ calls[k].user_id # 0
        /\ EmbeddedExpiryNotPassed(CallToken(k), now)

(* The signup calls for a username. *)
SignupsOf(u) == {i \in CallsOf("signup") : calls[i].username = u}

(* C28. Under every interleaving of signup calls with one username: at most
   one user row has that username, at most one call succeeds, every call
   that does not succeed is answered 400 "Username already exists" (unless
   the storage failed under it), and once all of them have returned
   without a storage failure exactly one has succeeded. *)
C28_UsernamesUniqueUnderRace ==
    \A u \in Usernames :
        LET started == SignupsOf(u)
            done == {i \in started : calls[i].pc = "done"}
            ok == {i \in done : calls[i].status = 200}
        IN /\ Cardinality({r \in users : r.username = u}) <= 1
           /\ Cardinality(ok) <= 1
           /\ \A i \in done \ ok :
                 \/ /\ calls[i].status = 400
                    /\ calls[i].detail = "Username already exists"
                    /\ calls[i].raised = "none"
                 \/ calls[i].raised = "OperationalError"
           /\ (/\ started # {}
               /\ done = started
               /\ \A i \in started : calls[i].raised = "none")
              => Cardinality(ok) = 1

(* C28: two signups with one username both passed the lookup; one of them
   succeeded and the other was answered 400 by the except branch. *)
C28_Witness ==
    \E u \in Usernames : \E i, j \in SignupsOf(u) :
        /\ calls[i].pc = "done"
        /\ calls[i].status = 200
        /\ calls[j].pc = "done"
        /\ calls[j].status = 400
        /\ calls[j].detail = "Username already exists"
        /\ next_user_id > Cardinality(users) + 1

(* C29. In every reachable state a user row exists if and only if its
   user_settings row exists. *)
C29_UserIffSettings ==
    /\ \A u \in users : \E s \in user_settings : s.user_id = u.id
    /\ \A s \in user_settings : \E u \in users : u.id = s.user_id

(* ------------------------------------------------------------------ *)
(* Sessions, laps and images (session_routes.py, image_routes.py,      *)
(* minio_service.py), served one request at a time. current_user is    *)
(* the row get_current_user resolved: an input of every handler.       *)
(* ------------------------------------------------------------------ *)
SessionIds == 1..MaxSessions
LapIds == 1..MaxLaps

(* str(uuid.uuid4()): a value not drawn before. *)
uuid4(n) == <<"u">> \o str(n)
ImageIds == {uuid4(n) : n \in 1..MaxImages}

(* Image upload limits (image_routes.py:20-23). *)
ALLOWED_EXTENSIONS == {<<"p", "n", "g">>, <<"j", "p", "g">>, <<"j", "p", "e", "g">>,
                       <<"g", "i", "f">>, <<"w", "e", "b", "p">>, <<"b", "m", "p">>}
MAX_FILE_SIZE == 10 * 1024 * 1024

(* str.lower() on the letters the uploads use. *)
lower(c) == IF c = "P" THEN "p" ELSE IF c = "N" THEN "n" ELSE IF c = "G" THEN "g" ELSE c

(* filename.rsplit('.', 1)[1].lower() if '.' in filename else '' *)
get_file_extension(filename) ==
    LET dots == {i \in 1..Len(filename) : filename[i] = "."}
    IN IF dots = {} THEN <<>>
       ELSE LET cut == CHOOSE i \in dots : \A j \in dots : j <= i
            IN [k \in 1..(Len(filename) - cut) |-> lower(filename[cut + k])]

is_allowed_file(filename) == get_file_extension(filename) \in ALLOWED_EXTENSIONS

(* The files a client uploads: [filename, size]. *)
Uploads ==
    {[filename |-> <<"a", ".", "P", "N", "G">>, size |-> 1],
     [filename |-> <<"a", ".", "e", "x", "e">>, size |-> 1],
     [filename |-> <<>>, size |-> 1],
     [filename |-> <<"a", ".", "p", "n", "g">>, size |-> MAX_FILE_SIZE + 1]}

(* The names a client gives a session or a lap, and renames it to. *)
GivenName == "work"
NewName == "renamed"

(* upload_image: f"{user_id}/{session_id}/{lap_id}_{image_uuid}.{file_extension}" *)
object_key(user_id, session_id, lap_id, image_uuid, file_extension) ==
    str(user_id) \o <<"/">> \o str(session_id) \o <<"/">> \o str(lap_id) \o <<"_">>
        \o image_uuid \o <<".">> \o file_extension

(* list_objects(prefix): the keys that start with the prefix. *)
StartsWith(key, prefix) ==
    /\ Len(prefix) <= Len(key)
    /\ SubSeq(key, 1, Len(prefix)) = prefix
list_objects(keys, prefix) == {k \in keys : StartsWith(k, prefix)}

(* delete_session_images / delete_lap_images: the bucket afterwards; an
   error of the object store is logged and nothing is deleted. *)
delete_session_images(keys, user_id, session_id, minio_fault) ==
    IF minio_fault THEN keys
    ELSE keys \ list_objects(keys, str(user_id) \o <<"/">> \o str(session_id) \o <<"/">>)
delete_lap_images(keys, user_id, session_id, lap_id, minio_fault) ==
    IF minio_fault THEN keys
    ELSE keys \ list_objects(keys, str(user_id) \o <<"/">> \o str(session_id) \o <<"/">>
                                       \o str(lap_id) \o <<"_">>)

(* An answer of a tracker handler: its response_model, the caller it was
   built for, the message and the rows it shows. *)
TrackerResponse(response_model, current_user, detail, body) ==
    [Response(response_model, 200, detail) EXCEPT
        !.user_id = Some(current_user), !.body = body]

(* raise HTTPException(status_code, detail) *)
HTTPException(status_code, detail) == Response("HTTPException", status_code, detail)

(* build_session_response: the session, session.laps and their lap.images. *)
build_session_response(session, include_laps) ==
    LET its_laps == {l \in laps : l.session_id = session.id}
    IN [sessions |-> {session},
        laps |-> IF include_laps THEN its_laps ELSE {},
        images |-> IF include_laps
                   THEN {im \in images : \E l \in its_laps : im.lap_id = l.id}
                   ELSE {}]

(* The rows of the session and lap lookups (.first()). *)
OwnSession(current_user, session_id) ==
    {x \in sessions : x.id = session_id /\ x.user_id = current_user}
OwnLap(current_user, session_id, lap_id) ==
    {l \in laps : l.id = lap_id /\ l.session_id = session_id /\ l.user_id = current_user}

create_session(current_user, sessionName) ==
    /\ next_session_id <= MaxSessions
    /\ LET db_session == [id |-> next_session_id, user_id |-> current_user,
                          session_name |-> sessionName]
       IN /\ sessions' = sessions \cup {db_session}
          /\ last' = TrackerResponse("SessionResponse", current_user, "",
                                     [EmptyBody EXCEPT !.sessions = {db_session}])
    /\ next_session_id' = next_session_id + 1
    /\ UNCHANGED <<laps, images, objects, next_lap_id, next_image_id>>

list_sessions(current_user) ==
    /\ last' = TrackerResponse("SessionListResponse", current_user, "",
                   [EmptyBody EXCEPT !.sessions = {x \in sessions : x.user_id = current_user}])
    /\ UNCHANGED tracker_vars

get_latest_session(current_user) ==
    LET own == {x \in sessions : x.user_id = current_user}
    IN /\ last' =
            IF own = {} THEN HTTPException(404, "No sessions found")
            ELSE TrackerResponse("SessionResponse", current_user, "",
                     build_session_response(CHOOSE x \in own : \A y \in own : y.id <= x.id,
                                            TRUE))
       /\ UNCHANGED tracker_vars

get_session(current_user, session_id) ==
    LET session == OwnSession(current_user, session_id)
    IN /\ last' =
            IF session = {} THEN HTTPException(404, "Session not found")
            ELSE TrackerResponse("SessionResponse", current_user, "",
                     build_session_response(CHOOSE x \in session : TRUE, TRUE))
       /\ UNCHANGED tracker_vars

update_session(current_user, session_id, sessionName) ==
    LET session == OwnSession(current_user, session_id)
    IN IF session = {}
       THEN /\ last' = HTTPException(404, "Session not found")
            /\ UNCHANGED tracker_vars
       ELSE LET updated == [(CHOOSE x \in session : TRUE) EXCEPT
                               !.session_name = sessionName]
            IN /\ sessions' = (sessions \ session) \cup {updated}
               /\ last' = TrackerResponse("SessionResponse", current_user, "",
                                          build_session_response(updated, TRUE))
               /\ UNCHANGED <<laps, images, objects, next_session_id, next_lap_id,
                              next_image_id>>

delete_session(current_user, session_id) ==
    LET session == OwnSession(current_user, session_id)
    IN IF session = {}
       THEN /\ last' = HTTPException(404, "Session not found")
            /\ UNCHANGED tracker_vars
       ELSE /\ \E minio_fault \in BOOLEAN :
                  objects' = delete_session_images(objects, current_user, session_id,
                                                   minio_fault)
            \* cascade="all, delete-orphan" on Session.laps, Session.images, Lap.images
            /\ sessions' = sessions \ session
            /\ laps' = {l \in laps : l.session_id # session_id}
            /\ images' = {im \in images :
                            /\ im.session_id # session_id
                            /\ \A l \in laps : l.session_id = session_id => im.lap_id # l.id}
            /\ last' = TrackerResponse("ApiResponse", current_user,
                                       "Session deleted successfully", EmptyBody)
            /\ UNCHANGED <<next_session_id, next_lap_id, next_image_id>>

create_lap(current_user, session_id, lapName) ==
    LET session == OwnSession(current_user, session_id)
    IN IF session = {}
       THEN /\ last' = HTTPException(404, "Session not found")
            /\ UNCHANGED tracker_vars
       ELSE /\ next_lap_id <= MaxLaps
            /\ LET lap_count == Cardinality({l \in laps : l.session_id = session_id})
                   lap_number == lap_count + 1
                   db_lap == [id |-> next_lap_id, session_id |-> session_id,
                              user_id |-> current_user, lap_number |-> lap_number,
                              lap_name |-> lapName]
               IN /\ laps' = laps \cup {db_lap}
                  /\ last' = TrackerResponse("LapResponse", current_user, "",
                                             [EmptyBody EXCEPT !.laps = {db_lap}])
            /\ next_lap_id' = next_lap_id + 1
            /\ UNCHANGED <<sessions, images, objects, next_session_id, next_image_id>>

(* Faulty variant: the lap is looked up without the filter on user_id. *)
update_lap_any_owner(current_user, session_id, lap_id, lapName) ==
    LET lap == {l \in laps : l.id = lap_id /\ l.session_id = session_id}
    IN IF lap = {}
       THEN /\ last' = HTTPException(404, "Lap not found")
            /\ UNCHANGED tracker_vars
       ELSE LET updated == [(CHOOSE l \in lap : TRUE) EXCEPT !.lap_name = lapName]
            IN /\ laps' = (laps \ lap) \cup {updated}
               /\ last' = TrackerResponse("LapResponse", current_user, "",
                              [EmptyBody EXCEPT
                                  !.laps = {updated},
                                  !.images = {im \in images : im.lap_id = lap_id}])
               /\ UNCHANGED <<sessions, images, objects, next_session_id, next_lap_id,
                              next_image_id>>

update_lap(current_user, session_id, lap_id, lapName) ==
    LET lap == OwnLap(current_user, session_id, lap_id)
    IN IF lap = {}
       THEN /\ last' = HTTPException(404, "Lap not found")
            /\ UNCHANGED tracker_vars
       ELSE LET updated == [(CHOOSE l \in lap : TRUE) EXCEPT !.lap_name = lapName]
            IN /\ laps' = (laps \ lap) \cup {updated}
               /\ last' = TrackerResponse("LapResponse", current_user, "",
                              [EmptyBody EXCEPT
                                  !.laps = {updated},
                                  !.images = {im \in images : im.lap_id = lap_id}])
               /\ UNCHANGED <<sessions, images, objects, next_session_id, next_lap_id,
                              next_image_id>>

delete_lap(current_user, session_id, lap_id) ==
    LET lap == OwnLap(current_user, session_id, lap_id)
    IN IF lap = {}
       THEN /\ last' = HTTPException(404, "Lap not found")
            /\ UNCHANGED tracker_vars
       ELSE /\ \E minio_fault \in BOOLEAN :
                  objects' = delete_lap_images(objects, current_user, session_id, lap_id,
                                               minio_fault)
            /\ laps' = laps \ lap
            /\ images' = {im \in images : im.lap_id # lap_id}
            /\ last' = TrackerResponse("ApiResponse", current_user,
                                       "Lap deleted successfully", EmptyBody)
            /\ UNCHANGED <<sessions, next_session_id, next_lap_id, next_image_id>>

(* The part of upload_lap_image after the lap was found (lines 69-148). *)
StoreUpload(current_user, session_id, lap_id, file, minio_fault) ==
    LET Refused(status, detail) ==
            /\ last' = HTTPException(status, detail)
            /\ UNCHANGED tracker_vars
    IN IF file.filename = <<>> THEN Refused(400, "No filename provided")
       ELSE IF ~is_allowed_file(file.filename) THEN Refused(400, "File type not allowed")
       ELSE IF file.size > MAX_FILE_SIZE THEN Refused(400, "File too large")
       ELSE /\ next_image_id <= MaxImages
            /\ next_image_id' = next_image_id + 1
            /\ LET image_uuid == uuid4(next_image_id)
                   minio_key == object_key(current_user, session_id, lap_id, image_uuid,
                                           get_file_extension(file.filename))
                   db_image == [image_uuid |-> image_uuid, user_id |-> current_user,
                                session_id |-> session_id, lap_id |-> lap_id,
                                minio_object_key |-> minio_key]
               IN IF minio_fault
                  THEN /\ last' = HTTPException(500, "Failed to upload image")
                       /\ UNCHANGED <<sessions, laps, images, objects, next_session_id,
                                      next_lap_id>>
                  ELSE /\ objects' = objects \cup {minio_key}
                       /\ images' = images \cup {db_image}
                       /\ last' = TrackerResponse("ImageResponse", current_user, "",
                                                  [EmptyBody EXCEPT !.images = {db_image}])
                       /\ UNCHANGED <<sessions, laps, next_session_id, next_lap_id>>

upload_lap_image(current_user, session_id, lap_id) ==
    IF OwnLap(current_user, session_id, lap_id) = {}
    THEN /\ last' = HTTPException(404, "Lap not found")
         /\ UNCHANGED tracker_vars
    ELSE \E file \in Uploads, minio_fault \in BOOLEAN :
            StoreUpload(current_user, session_id, lap_id, file, minio_fault)

get_lap_images(current_user, session_id, lap_id) ==
    LET lap == OwnLap(current_user, session_id, lap_id)
    IN /\ last' =
            IF lap = {} THEN HTTPException(404, "Lap not found")
            ELSE TrackerResponse("ImageListResponse", current_user, "",
                     [EmptyBody EXCEPT !.images =
                         {im \in images : /\ im.lap_id = lap_id
                                          /\ im.session_id = session_id
                                          /\ im.user_id = current_user}])
       /\ UNCHANGED tracker_vars

get_session_images(current_user, session_id) ==
    LET session == OwnSession(current_user, session_id)
    IN /\ last' =
            IF session = {}
            THEN HTTPException(404, "Session not found")
            ELSE TrackerResponse("ImageListResponse", current_user, "",
                     [EmptyBody EXCEPT !.images =
                         {im \in images : /\ im.session_id = session_id
                                          /\ im.user_id = current_user}])
       /\ UNCHANGED tracker_vars

delete_image_endpoint(current_user, image_id) ==
    LET image == {im \in images : im.image_uuid = image_id /\ im.user_id = current_user}
    IN IF image = {}
       THEN /\ last' = HTTPException(404, "Image not found")
            /\ UNCHANGED tracker_vars
       ELSE /\ \E minio_fault \in BOOLEAN :
                  objects' = IF minio_fault THEN objects
                             ELSE objects \ {im.minio_object_key : im \in image}
            /\ images' = images \ image
            /\ last' = TrackerResponse("ApiResponse", current_user,
                                       "Image deleted successfully", EmptyBody)
            /\ UNCHANGED <<sessions, laps, next_session_id, next_lap_id, next_image_id>>

(* Every user has signed up; no session has been saved yet. *)
TrackerInit ==
    /\ users = SeededUsers
    /\ user_settings = {[user_id |-> u.id] : u \in SeededUsers}
    /\ refresh_tokens = {}
    /\ next_user_id = MaxUsers + 1
    /\ next_token_id = 1
    /\ now = 0
    /\ advances = 0
    /\ held = {}
    /\ last = Response("start", 0, "")
    /\ NoCalls
    /\ NoTrackerRows

(* What the tracker handlers leave alone. *)
AuthUntouched ==
    UNCHANGED <<users, user_settings, refresh_tokens, next_user_id, next_token_id,
                now, advances, held, calls>>

TrackerNext ==
    \/ \E cu \in UserIds : create_session(cu, GivenName) /\ AuthUntouched
    \/ \E cu \in UserIds : list_sessions(cu) /\ AuthUntouched
    \/ \E cu \in UserIds : get_latest_session(cu) /\ AuthUntouched
    \/ \E cu \in UserIds, sid \in SessionIds : get_session(cu, sid) /\ AuthUntouched
    \/ \E cu \in UserIds, sid \in SessionIds :
          update_session(cu, sid, NewName) /\ AuthUntouched
    \/ \E cu \in UserIds, sid \in SessionIds : delete_session(cu, sid) /\ AuthUntouched
    \/ \E cu \in UserIds, sid \in SessionIds : create_lap(cu, sid, GivenName) /\ AuthUntouched
    \/ \E cu \in UserIds, sid \in SessionIds, lid \in LapIds :
          update_lap(cu, sid, lid, NewName) /\ AuthUntouched
    \/ \E cu \in UserIds, sid \in SessionIds, lid \in LapIds :
          delete_lap(cu, sid, lid) /\ AuthUntouched
    \/ \E cu \in UserIds, sid \in SessionIds, lid \in LapIds :
          upload_lap_image(cu, sid, lid) /\ AuthUntouched
    \/ \E cu \in UserIds, sid \in SessionIds, lid \in LapIds :
          get_lap_images(cu, sid, lid) /\ AuthUntouched
    \/ \E cu \in UserIds, sid \in SessionIds : get_session_images(cu, sid) /\ AuthUntouched
    \/ \E cu \in UserIds, img \in ImageIds : delete_image_endpoint(cu, img) /\ AuthUntouched

TrackerSpec == TrackerInit /\ [][TrackerNext]_vars

(* The step is a call by current_user that names the session, the lap or
   the image. *)
NamesSession(cu, sid) ==
    \/ get_session(cu, sid)
    \/ update_session(cu, sid, NewName)
    \/ delete_session(cu, sid)
    \/ create_lap(cu, sid, GivenName)
    \/ get_session_images(cu, sid)
    \/ \E lid \in LapIds :
          \/ update_lap(cu, sid, lid, NewName)
          \/ get_lap_images(cu, sid, lid)
          \/ delete_lap(cu, sid, lid)
          \/ upload_lap_image(cu, sid, lid)
NamesLap(cu, lid) ==
    \E sid \in SessionIds :
        \/ update_lap(cu, sid, lid, NewName)
        \/ get_lap_images(cu, sid, lid)
        \/ delete_lap(cu, sid, lid)
        \/ upload_lap_image(cu, sid, lid)
NamesImage(cu, img) == delete_image_endpoint(cu, img)

(* The rows and the object keys a step added, removed or rewrote. *)
Touched(before, after) == (before \ after) \cup (after \ before)

(* C25. A session, lap or image handler called by a user reads, writes and
   deletes only rows whose user_id is that user's id and only objects
   under that user's prefix; a call that names a session, lap or image of
   another user is answered 404 and changes no row and no object. *)
C25_OwnershipIsolation ==
    [][/\ \A cu \in UserIds :
             last'.user_id = Some(cu)
             => /\ \A r \in Touched(sessions, sessions') \cup Touched(laps, laps')
                             \cup Touched(images, images') : r.user_id = cu
                /\ \A k \in Touched(objects, objects') : StartsWith(k, str(cu) \o <<"/">>)
                /\ \A r \in last'.body.sessions \cup last'.body.laps
                             \cup last'.body.images : r.user_id = cu
       /\ last'.op = "HTTPException" => UNCHANGED <<sessions, laps, images, objects>>
       /\ \/ last'.status = 404 /\ UNCHANGED <<sessions, laps, images, objects>>
          \/ \A cu \in UserIds :
                last'.user_id \in {None, Some(cu)}
                => /\ \A sid \in SessionIds :
                         (\E x \in sessions : x.id = sid /\ x.user_id # cu)
                         => ~NamesSession(cu, sid)
                   /\ \A lid \in LapIds :
                         (\E l \in laps : l.id = lid /\ l.user_id # cu)
                         => ~NamesLap(cu, lid)
                   /\ \A img \in ImageIds :
                         (\E im \in images : im.image_uuid = img /\ im.user_id # cu)
                         => ~NamesImage(cu, img)]_vars

(* C25: a delete of an image was answered 404 "Image not found" while every
   image id a request can name is the id of a stored image with its
   object: the caller was not its owner. *)
C25_Witness ==
    /\ last.op = "HTTPException"
    /\ last.status = 404
    /\ last.detail = "Image not found"
    /\ \A img \in ImageIds : \E im \in images :
          /\ im.image_uuid = img
          /\ im.minio_object_key \in objects

(* ------------------------------------------------------------------ *)
(* create_lap and delete_lap on one session, create_lap interleaved    *)
(* ------------------------------------------------------------------ *)

(* One session has been saved. *)
LapInit ==
    /\ users = SeededUsers
    /\ user_settings = {[user_id |-> u.id] : u \in SeededUsers}
    /\ refresh_tokens = {}
    /\ next_user_id = MaxUsers + 1
    /\ next_token_id = 1
    /\ now = 0
    /\ advances = 0
    /\ held = {}
    /\ last = Response("start", 0, "")
    /\ NoCalls
    /\ sessions = {[id |-> 1, user_id |-> 1, session_name |-> GivenName]}
    /\ laps = {}
    /\ images = {}
    /\ objects = {}
    /\ next_session_id = 2
    /\ next_lap_id = 1
    /\ next_image_id = 1

(* create_lap, lines 283-295: the session lookup and the count of its laps. *)
create_lap_count(i, current_user, session_id) ==
    /\ calls[i].pc = "idle"
    /\ LET session == OwnSession(current_user, session_id)
           lap_count == Cardinality({l \in laps : l.session_id = session_id})
           call == [IdleCall EXCEPT !.op = "create_lap", !.user_id = current_user,
                                    !.session_id = session_id]
       IN calls' = [calls EXCEPT ![i] =
                       IF session = {}
                       THEN [call EXCEPT !.pc = "done", !.status = 404,
                                         !.detail = "Session not found"]
                       ELSE [call EXCEPT !.pc = "insert", !.lap_number = lap_count + 1]]
    /\ UNCHANGED <<auth_vars, tracker_vars>>

(* create_lap, lines 299-310: INSERT of the lap and COMMIT. *)
create_lap_insert(i) ==
    /\ calls[i].pc = "insert"
    /\ laps' = laps \cup {[id |-> next_lap_id, session_id |-> calls[i].session_id,
                           user_id |-> calls[i].user_id,
                           lap_number |-> calls[i].lap_number, lap_name |-> GivenName]}
    /\ next_lap_id' = next_lap_id + 1
    /\ calls' = [calls EXCEPT ![i].pc = "done", ![i].status = 200]
    /\ UNCHANGED <<auth_vars, sessions, images, objects, next_session_id, next_image_id>>

LapNext ==
    \/ \E i \in CallIds, cu \in UserIds, sid \in SessionIds : create_lap_count(i, cu, sid)
    \/ \E i \in CallIds : create_lap_insert(i)
    \/ \E cu \in UserIds, sid \in SessionIds, lid \in CallIds :
          delete_lap(cu, sid, lid) /\ AuthUntouched

LapSpec == LapInit /\ [][LapNext]_vars

(* C30. No two laps of one session have the same lap_number. *)
C30_LapNumbersUnique ==
    \A l1, l2 \in laps :
        (l1.session_id = l2.session_id /\ l1.lap_number = l2.lap_number) => l1 = l2

====
